---- MODULE Spec2Model ----
(***************************************************************************)
(* The database-VM lifecycle gate of Open Notebook's frontend.             *)
(*                                                                         *)
(*   lib/hooks/use-db-vm.ts      useDbVmStatus, useStartDbVm, useStopDbVm   *)
(*   components/db/DbVmGate.tsx  the gate, earlier revision                 *)
(*   components/sources/AddSourceDialog.tsx:728-1021                        *)
(*                               the gate, later revision                   *)
(*                                                                         *)
(* The gate is mounted once, in the root layout, below the QueryProvider:  *)
(* a mount is a page load.  It starts from an empty query cache and empty  *)
(* component state, and from whatever the browser's localStorage holds.    *)
(* Every step of the model is one event-loop task (a click, a timer        *)
(* callback, the completion of a request) followed by the renders and      *)
(* effects React runs before the next task: every state is a settled one.  *)
(***************************************************************************)
EXTENDS Integers, Sequences, FiniteSets

VARIABLES
    rev,                 \* which revision of DbVmGate is mounted
    env,                 \* NEXT_PUBLIC_* flags and the hostname
    now,                 \* Date.now(), in ms
    data,                \* the status query's data (NoData: undefined)
    fetchStatus,         \* the status query's fetchStatus
    isFetchedAfterMount, \* the observer's isFetchedAfterMount
    isStarting,          \* useState, DbVmGate
    isStopping,          \* useState, DbVmGate
    isSuspendingLocal,   \* useState, DbVmGate
    progress,            \* useState, DbVmGate: a fraction <<num, den>>
    startTimestamp,      \* useState, DbVmGate (Null: null)
    startError,          \* useState, DbVmGate: TRUE when a message is set
    storedTs,            \* localStorage['db-vm-start-ts']
    storedStatus,        \* localStorage['db-vm-last-status']
    startInFlight,       \* start() calls awaiting startMutation.mutateAsync()
    stopInFlight,        \* stop() calls awaiting stopMutation.mutateAsync()
    last,                \* history: the event of the last step
    liveCheck,           \* history: outcomes of this mount's status fetches
    live,                \* history: the snapshot of the last resolved fetch
    supersededCache,     \* history: the last step's fetch replaced a cached
                         \* running snapshot accepted at mount
    stopAwaiting,        \* stop() calls awaiting refetch()
    settled,             \* history: how the promise of start() or stop()
                         \* that returned in the last step was settled
    mdRev,               \* which revision of lib/markdown.tsx is called
    uri,                 \* the argument of transformImageUri
    transformed,         \* the value transformImageUri returned
    tickers,             \* the live 400 ms intervals of the progress effect
    fetchIssuedAt,       \* when the status fetch in flight was issued
    stale,               \* the issue times of the cancelled status fetches
                         \* whose requests are still under way
    dropped,             \* history: the response of a cancelled fetch that
                         \* arrived last
    dlg,                 \* AddSourceDialog: the open prop, useState values
                         \* and timeoutRef.current, as a record
    timeouts,            \* the pending 3 s timeouts of onSubmit's catch
    subs,                \* the invocations of onSubmit: position and locals
    devent,              \* history: the dialog's event of the last step
    session              \* history: how often the dialog has been opened

vars == <<rev, env, now, data, fetchStatus, isFetchedAfterMount, isStarting,
          isStopping, isSuspendingLocal, progress, startTimestamp, startError,
          storedTs, storedStatus, startInFlight, stopInFlight, last, liveCheck,
          live, supersededCache, stopAwaiting, settled, mdRev, uri,
          transformed,
          tickers, fetchIssuedAt, stale, dropped,
          dlg, timeouts, subs, devent, session>>

\* the variables of lib/markdown.tsx
uriVars == <<mdRev, uri, transformed>>

fetchVars == <<fetchIssuedAt, stale, dropped>>

dialogVars == <<dlg, timeouts, subs, devent, session>>

----------------------------------------------------------------------------
(* Bounds of the model *)

\* the clock advances at most MaxTicks times, by TickMs each time
MaxTicks == 2
TickMs == 30000
\* Date.now() at the first page load
InitNow == 100000
\* start() calls whose request has not completed yet, and stop() calls
\* that have not returned yet
MaxInFlight == 1

----------------------------------------------------------------------------
(* Program constants *)

MAX_CACHE_AGE_MS == 60000
DefaultEstimatedSeconds == 90
ProgressCap == 99
ProgressDone == 100

\* the value of useState<number | null>(null); Date.now() is never 0 and the
\* code only tests the timestamp for truthiness
Null == 0
\* new Date(x).getTime() of a missing or malformed checkedAt: NaN
NaN == -1
\* config.estimatedStartSeconds left out of the snapshot (a duration that
\* is present is 0 or more)
NoEst == -1

----------------------------------------------------------------------------
(* Values *)

\* DbVmStatusResponse['status']: the known values and "PROVISIONING", a
\* provider string no comparison of the code names
StatusValues ==
    {"running", "stopped", "suspended", "starting", "suspending", "unknown",
     "PROVISIONING"}

\* config.estimatedStartSeconds of the snapshots the server makes: the
\* deployment leaves it out (ProgressPct is checked for other values too)
EstValues == {NoEst}

\* rawStatus of a snapshot: the provider's name for the state, which the
\* server passes on beside the status it derives from it; the model takes
\* one provider name per status
RawStatusOf(s) == <<"provider", s>>

Undefined == <<>>

NoData ==
    [status |-> "undefined", rawStatus |-> Undefined, checkedAt |-> NaN,
     est |-> NoEst]

Snapshot(s, t, e) ==
    [status |-> s, rawStatus |-> RawStatusOf(s), checkedAt |-> t, est |-> e]

\* a localStorage value of the start-timestamp key: absent, the decimal
\* string of a number, or some other text
AbsentItem == [kind |-> "absent", val |-> 0]
TextItem == [kind |-> "text", val |-> 0]

\* Number.prototype.toString of an integer timestamp
NumberToString(n) == [kind |-> "dec", val |-> n]

\* Number(stored): the number a decimal string denotes, NaN for other text
Number(item) == IF item.kind = "dec" THEN item.val ELSE NaN

\* a localStorage value of the last-status key: absent, text JSON.parse or
\* the property reads reject, or the serialization of a snapshot
AbsentEntry == [kind |-> "absent", snap |-> NoData]
BrokenEntry == [kind |-> "broken", snap |-> NoData]

JSONstringify(snap) == [kind |-> "json", snap |-> snap]

----------------------------------------------------------------------------
(* useDbVmStatus: the cached status read when the query is created *)

\* ageMs > MAX_CACHE_AGE_MS, with ageMs = Date.now() - new Date(checkedAt)
\* .getTime(); every comparison with NaN is false
AgeExceeds(snap, t) ==
    /\ snap.checkedAt # NaN
    /\ t - snap.checkedAt > MAX_CACHE_AGE_MS

\* getCachedStatus() at the first render of a page load: the query cache is
\* empty, so the value comes from localStorage or is undefined
getCachedStatus(entry, t) ==
    IF entry.kind = "json"
    THEN IF entry.snap.status = "running" /\ AgeExceeds(entry.snap, t)
         THEN NoData
         ELSE entry.snap
    ELSE NoData

\* mutant: refetchOnMount left at its default, under which initial data
\* younger than staleTime is not refetched
FetchOnMountWhenNoData(initial) == initial = NoData

\* refetchOnMount: 'always' (and the first load of a query without data):
\* whether mounting the observer starts a fetch, given the initial data
FetchOnMount(initial) == TRUE

\* mutant: an interval that is armed for every snapshot, running included
RefetchIntervalOnAnySnapshot(d) == d # NoData

\* mutant: an interval that reads the provider's name of the state
RefetchIntervalOnRawStatus(d) ==
    ~(d = NoData \/ d.rawStatus = <<"provider", "running">>)

\* refetchInterval(query): 10 s polling is on, or false
RefetchIntervalOn(d) == ~(d = NoData \/ d.status = "running")

\* mutant: the data the query was created with wins over the fetched one
ApplyFetchedKeepsInitial(d, snap) == IF d = NoData THEN snap ELSE d

\* the query's data after a fetch resolved with snap
ApplyFetched(d, snap) == snap

----------------------------------------------------------------------------
(* DbVmGate: values derived in render *)

StatusOf(d) == IF d = NoData THEN "unknown" ELSE d.status

\* mutant: a status that shows a local start at once
statusOptimistic == IF isStarting THEN "starting" ELSE StatusOf(data)

status == StatusOf(data)

rawStatus == IF data = NoData THEN Undefined ELSE data.rawStatus

estimatedSeconds ==
    IF data = NoData \/ data.est = NoEst THEN DefaultEstimatedSeconds
    ELSE data.est

isFetching == fetchStatus = "fetching"

\* isLoading of the query result: fetching with no data yet
isLoading == isFetching /\ data = NoData

isSuspending == status = "suspending" \/ isSuspendingLocal

isStartingFromServer == status = "starting"

isValidating == isLoading \/ isFetching \/ ~isFetchedAfterMount

isCheckingRunning == isValidating /\ status = "running"

showProgress == isStarting /\ startTimestamp # Null

\* mutant: the bypass needs the flag and the hostname
gateDisabledNeedsBoth == (env.disable /\ env.localhost) /\ ~env.force

\* mutant: the force flag overrides the disable flag only
gateDisabledLocalhostUnforced == (env.disable /\ ~env.force) \/ env.localhost

gateDisabled == (env.disable \/ env.localhost) /\ ~env.force

\* mutant: the decision without the validation term
shouldGateWithoutValidating ==
    status # "running" \/ isStarting \/ isStopping \/ isSuspending

\* mutant: the decision from the flags alone, whatever the status
shouldGateLaterOnFlags ==
    isValidating \/ isStarting \/ isStopping \/ isSuspending

shouldGateLater ==
    isValidating \/ status # "running" \/ isStarting \/ isStopping \/ isSuspending

shouldGateEarlier ==
    status # "running" \/ isStarting \/ isStopping \/ isLoading

shouldGate == IF rev = "later" THEN shouldGateLater ELSE shouldGateEarlier

startDisabledLater ==
    isCheckingRunning \/ isStarting \/ isStartingFromServer \/ isStopping
        \/ isSuspending

startDisabledEarlier ==
    isStarting \/ isStartingFromServer \/ isStopping \/ isSuspending

\* mutant: the button's disabled attribute is startDisabled alone
buttonDisabledWithoutValidating ==
    IF rev = "later" THEN startDisabledLater ELSE startDisabledEarlier

\* the disabled attribute of the gate's button
buttonDisabled ==
    IF rev = "later" THEN startDisabledLater \/ isValidating
    ELSE startDisabledEarlier

\* the isStarting of the context value, which also selects the gate's
\* "Starting..." texts
contextIsStarting == isStarting \/ isStartingFromServer

\* what the provider renders: the blocking screen or the wrapped application
Rendered ==
    IF gateDisabled THEN "children"
    ELSE IF shouldGate THEN "gate" ELSE "children"

----------------------------------------------------------------------------
(* Progress: a percentage, kept exact as a reduced fraction <<num, den>> *)

RECURSIVE Gcd(_, _)
Gcd(a, b) == IF b = 0 THEN a ELSE Gcd(b, a % b)

Abs(n) == IF n < 0 THEN -n ELSE n

Fraction(n, d) ==
    LET g == Gcd(Abs(n), d) IN
    IF n = 0 THEN <<0, 1>> ELSE <<n \div g, d \div g>>

\* the quotient 0 / 0, and every value computed from it
NotANumber == <<0, 0>>

\* mutant: the extrapolation without Math.min(99, ...)
ProgressPctUncapped(elapsedMs, est) ==
    IF est * 1000 = 0 /\ elapsedMs = 0 THEN NotANumber
    ELSE Fraction(elapsedMs * 100, est * 1000)

\* Math.min(99, (elapsedMs / (estimatedSeconds * 1000)) * 100), est >= 0;
\* a division of a positive number by 0 is Infinity, which the minimum
\* replaces by 99, and Math.min(99, NaN) is NaN
ProgressPct(elapsedMs, est) ==
    IF est * 1000 = 0 /\ elapsedMs = 0 THEN NotANumber
    ELSE IF elapsedMs * 100 >= ProgressCap * est * 1000
    THEN Fraction(ProgressCap, 1)
    ELSE Fraction(elapsedMs * 100, est * 1000)

----------------------------------------------------------------------------
(* The component's state and the durable store, as records *)

ComponentInit ==
    [isStarting |-> FALSE, isStopping |-> FALSE, isSuspendingLocal |-> FALSE,
     progress |-> Fraction(0, 1), startTimestamp |-> Null,
     startError |-> FALSE]

Component ==
    [isStarting |-> isStarting, isStopping |-> isStopping,
     isSuspendingLocal |-> isSuspendingLocal, progress |-> progress,
     startTimestamp |-> startTimestamp, startError |-> startError]

Store == [ts |-> storedTs, status |-> storedStatus]

----------------------------------------------------------------------------
(* The effects of one commit.                                              *)
(* mount: the commit is the first of the mount (every effect runs);        *)
(* otherwise an effect runs when one of its dependencies differs from the  *)
(* previous commit pc, pd.  The effects read the state c, d of the render  *)
(* they belong to, queue their setState calls and write localStorage at    *)
(* once, in the order of their declaration.                                *)

\* mutant: the last known status is dropped from the store when the
\* snapshot is final (running, suspended or stopped)
PersistStatusEffectClearsFinal(mount, pd, d, st) ==
    IF (mount \/ pd # d) /\ d # NoData
    THEN IF d.status \in {"running", "suspended", "stopped"}
         THEN [st EXCEPT !.status = AbsentEntry]
         ELSE [st EXCEPT !.status = JSONstringify(d)]
    ELSE st

\* mutant: the last known status is written at mount only
PersistStatusEffectAtMount(mount, pd, d, st) ==
    IF mount /\ d # NoData
    THEN [st EXCEPT !.status = JSONstringify(d)]
    ELSE st

\* useDbVmStatus: persist the last known status, [query.data]
PersistStatusEffect(mount, pd, d, st) ==
    IF (mount \/ pd # d) /\ d # NoData
    THEN [st EXCEPT !.status = JSONstringify(d)]
    ELSE st

\* "Auto-complete progress when VM flips to running", [status]
RunningEffectRuns(mount, pd, d) ==
    (mount \/ StatusOf(pd) # StatusOf(d)) /\ StatusOf(d) = "running"

\* mutant: the running effect without setProgress(100)
RunningEffectStateKeepsProgress(c) ==
    [c EXCEPT !.isStarting = FALSE, !.isStopping = FALSE,
              !.isSuspendingLocal = FALSE]

\* mutant: the running effect without setIsStarting(false)
RunningEffectStateKeepsStarting(c) ==
    [c EXCEPT !.progress = Fraction(ProgressDone, 1), !.isStopping = FALSE,
              !.isSuspendingLocal = FALSE]

RunningEffectState(c) ==
    [c EXCEPT !.progress = Fraction(ProgressDone, 1), !.isStarting = FALSE,
              !.isStopping = FALSE, !.isSuspendingLocal = FALSE]

\* mutant: the running effect without localStorage.removeItem
RunningEffectStoreKeepsTs(st) == st

RunningEffectStore(st) == [st EXCEPT !.ts = AbsentItem]

\* mutant: no effect persists the start timestamp
PersistTsEffectNever(mount, pc, c, st) == st

\* "Persist start timestamp so refresh keeps the bar",
\* [startTimestamp, isStarting]
PersistTsEffect(mount, pc, c, st) ==
    IF /\ mount \/ pc.startTimestamp # c.startTimestamp
                \/ pc.isStarting # c.isStarting
       /\ c.startTimestamp # Null
       /\ c.isStarting
    THEN [st EXCEPT !.ts = NumberToString(c.startTimestamp)]
    ELSE st

\* mutant: the later revision's restore effect with the earlier one's
\* dependency on isStarting
RestoreEffectRunsOnStarting(r, mount, pc, pd, c, d) ==
    mount \/ pc.isStarting # c.isStarting

\* the dependencies of the restore effect: [] in the later revision,
\* [isStartingFromServer, isStarting] in the earlier one
RestoreEffectRuns(r, mount, pc, pd, c, d) ==
    IF r = "later" THEN mount
    ELSE \/ mount
         \/ (StatusOf(pd) = "starting") # (StatusOf(d) = "starting")
         \/ pc.isStarting # c.isStarting

\* mutant: the restore effect takes the time of the mount as the start
RestoreEffectStateNow(r, c, d, st, q, t) ==
    IF st.ts.kind # "absent" /\ Number(st.ts) # NaN
    THEN [q EXCEPT !.startTimestamp = t, !.isStarting = TRUE]
    ELSE q

\* mutant: the later revision's restore effect with the earlier one's
\* else branch, which takes the time of the mount as the start when the
\* server reports starting
RestoreEffectStateFabricates(r, c, d, st, q, t) ==
    IF st.ts.kind # "absent"
    THEN IF Number(st.ts) # NaN
         THEN [q EXCEPT !.startTimestamp = Number(st.ts), !.isStarting = TRUE]
         ELSE q
    ELSE IF StatusOf(d) = "starting" /\ ~c.isStarting
         THEN [q EXCEPT !.startTimestamp = t, !.isStarting = TRUE]
         ELSE q

\* "Restore start state on mount": the state it queues onto q, reading the
\* render's c, d and the store as the earlier effects left it
RestoreEffectState(r, c, d, st, q, t) ==
    IF st.ts.kind # "absent"
    THEN IF Number(st.ts) # NaN
         THEN [q EXCEPT !.startTimestamp = Number(st.ts), !.isStarting = TRUE]
         ELSE q
    ELSE IF r = "earlier" /\ StatusOf(d) = "starting" /\ ~c.isStarting
         THEN [q EXCEPT !.startTimestamp = t, !.isStarting = TRUE]
         ELSE q

RestoreEffectStore(r, c, d, st, t) ==
    IF /\ st.ts.kind = "absent"
       /\ r = "earlier" /\ StatusOf(d) = "starting" /\ ~c.isStarting
    THEN [st EXCEPT !.ts = NumberToString(t)]
    ELSE st

\* "Reset local suspending flag once backend reports non-running state",
\* [status]
ResetSuspendingEffect(mount, pd, d, q) ==
    IF /\ mount \/ StatusOf(pd) # StatusOf(d)
       /\ StatusOf(d) \in {"suspended", "stopped"}
    THEN [q EXCEPT !.isSuspendingLocal = FALSE, !.isStopping = FALSE]
    ELSE q

\* one commit's effects: the state queued for the next render and the store
EffectsPass(r, mount, pc, pd, c, d, st, t) ==
    LET st1 == PersistStatusEffect(mount, pd, d, st)
        run == RunningEffectRuns(mount, pd, d)
        q1  == IF run THEN RunningEffectState(c) ELSE c
        st2 == IF run THEN RunningEffectStore(st1) ELSE st1
        st3 == PersistTsEffect(mount, pc, c, st2)
        res == RestoreEffectRuns(r, mount, pc, pd, c, d)
        q2  == IF res THEN RestoreEffectState(r, c, d, st3, q1, t) ELSE q1
        st4 == IF res THEN RestoreEffectStore(r, c, d, st3, t) ELSE st3
        q3  == ResetSuspendingEffect(mount, pd, d, q2)
    IN  [c |-> q3, st |-> st4]

\* the dependencies of the progress effect in a render
ProgressDeps(c, d) ==
    <<IF d = NoData \/ d.est = NoEst THEN DefaultEstimatedSeconds ELSE d.est,
      c.isStarting, c.startTimestamp,
      c.isStarting /\ c.startTimestamp # Null>>

\* mutant: the progress effect without its cleanup function
ProgressEffectNoCleanup(mount, pc, pd, c, d, n) ==
    IF mount \/ ProgressDeps(pc, pd) # ProgressDeps(c, d)
    THEN n + (IF ProgressDeps(c, d)[4] THEN 1 ELSE 0)
    ELSE n

\* "Progress animation for the 90s bar", [estimatedSeconds, isStarting,
\* startTimestamp, showProgress]: the number of live intervals after the
\* commit, n before it.  When the effect runs again, the cleanup of the
\* previous run clears the interval that run made (if it made one), then
\* the effect makes one if showProgress
ProgressEffect(mount, pc, pd, c, d, n) ==
    IF mount \/ ProgressDeps(pc, pd) # ProgressDeps(c, d)
    THEN (n - (IF ~mount /\ ProgressDeps(pc, pd)[4] THEN 1 ELSE 0))
             + (IF ProgressDeps(c, d)[4] THEN 1 ELSE 0)
    ELSE n

\* render and run effects until no effect changes the state; n: the live
\* intervals of the progress effect
RECURSIVE Settle(_, _, _, _, _, _, _, _, _)
Settle(r, mount, pc, pd, c, d, st, t, n) ==
    LET p == EffectsPass(r, mount, pc, pd, c, d, st, t)
        n1 == ProgressEffect(mount, pc, pd, c, d, n)
    IN  IF p.c = c THEN [c |-> p.c, st |-> p.st, n |-> n1]
        ELSE Settle(r, FALSE, c, d, p.c, d, p.st, t, n1)

\* the settled state after an event changed the component state to c and
\* the query data to d
AfterEvent(c, d) ==
    Settle(rev, FALSE, Component, data, c, d, Store, now, tickers)

\* the settled state after mounting over the store st at time t; the page
\* load left no interval of an earlier mount
AfterMount(r, st, t) ==
    LET initial == getCachedStatus(st.status, t) IN
    Settle(r, TRUE, ComponentInit, initial, ComponentInit, initial, st, t, 0)

\* the next state's component state and store
Commit(p) ==
    /\ isStarting' = p.c.isStarting
    /\ isStopping' = p.c.isStopping
    /\ isSuspendingLocal' = p.c.isSuspendingLocal
    /\ progress' = p.c.progress
    /\ startTimestamp' = p.c.startTimestamp
    /\ startError' = p.c.startError
    /\ storedTs' = p.st.ts
    /\ storedStatus' = p.st.status
    /\ tickers' = p.n

----------------------------------------------------------------------------
(* A page load *)

\* transformImageUri is not called in the runs of the gate
NoUriCall == mdRev = "none" /\ uri = <<>> /\ transformed = <<>>

\* the runs of the gate keep one status fetch and do not follow the
\* requests of the fetches it replaced (SpecFetch does)
NoFetchLog == fetchIssuedAt = Null /\ stale = {} /\ dropped = NoData

\* batchProgress when it is null
NoBatch == [null |-> TRUE]

\* AddSourceDialog as constructed, open: the initial useState values and
\* timeoutRef.current ("none": null)
DialogInit ==
    [open |-> TRUE, mounted |-> TRUE, processing |-> FALSE,
     processingStatus |-> "none", batchProgress |-> NoBatch,
     timeoutRef |-> "none"]

\* an invocation of onSubmit that has not been made
SubIdle ==
    [pc |-> "idle", urls |-> <<>>, j |-> 0, counts |-> <<>>, items |-> <<>>,
     i |-> 0, success |-> 0, failed |-> 0, elapsed |-> 0, issued |-> <<>>]

SubIds == {"first", "second"}

NoEvent == [name |-> "none", sub |-> "none", toast |-> "none", urls |-> <<>>]

\* no dialog in the page
NoDialog ==
    /\ dlg = DialogInit
    /\ timeouts = {}
    /\ subs = [k \in SubIds |-> SubIdle]
    /\ devent = NoEvent
    /\ session = 1

\* the environment of a deployment: NEXT_PUBLIC_DISABLE_DB_VM_GATE === 'true',
\* NEXT_PUBLIC_FORCE_DB_VM_GATE === 'true', hostname localhost or 127.0.0.1
EnvValues ==
    {[disable |-> FALSE, force |-> FALSE, localhost |-> FALSE],
     [disable |-> TRUE, force |-> FALSE, localhost |-> FALSE],
     [disable |-> FALSE, force |-> FALSE, localhost |-> TRUE],
     [disable |-> TRUE, force |-> TRUE, localhost |-> FALSE],
     [disable |-> FALSE, force |-> TRUE, localhost |-> TRUE]}

\* what localStorage may hold when the page is first loaded
InitCheckedAt ==
    {InitNow, InitNow - MAX_CACHE_AGE_MS, InitNow - MAX_CACHE_AGE_MS - 1,
     InitNow + TickMs, NaN}

InitEntries ==
    {AbsentEntry, BrokenEntry}
        \cup {JSONstringify(Snapshot(s, t, NoEst)) :
                  s \in StatusValues, t \in InitCheckedAt}

InitItems == {AbsentItem, TextItem, NumberToString(InitNow - TickMs)}

\* mount DbVmGate over the store st: empty component state, a new query
\* created from the cached status, the mount's fetch, the mount's effects
Mount(r, st) ==
    LET initial == getCachedStatus(st.status, now)
        p == AfterMount(r, st, now)
    IN  /\ data' = initial
        /\ fetchStatus' = IF FetchOnMount(initial) THEN "fetching" ELSE "idle"
        /\ isFetchedAfterMount' = FALSE
        /\ Commit(p)
        /\ startInFlight' = 0
        /\ stopInFlight' = 0
        /\ last' = "Mount"
        /\ liveCheck' = "none"
        /\ live' = NoData
        /\ supersededCache' = FALSE
        /\ stopAwaiting' = 0
        /\ settled' = "none"

InitRev(r) ==
    /\ rev = r
    /\ env \in EnvValues
    /\ now = InitNow
    /\ \E entry \in InitEntries, item \in InitItems :
         LET st == [ts |-> item, status |-> entry]
             initial == getCachedStatus(entry, InitNow)
             p == AfterMount(r, st, InitNow)
         IN  /\ data = initial
             /\ fetchStatus = IF FetchOnMount(initial) THEN "fetching" ELSE "idle"
             /\ isFetchedAfterMount = FALSE
             /\ isStarting = p.c.isStarting
             /\ isStopping = p.c.isStopping
             /\ isSuspendingLocal = p.c.isSuspendingLocal
             /\ progress = p.c.progress
             /\ startTimestamp = p.c.startTimestamp
             /\ startError = p.c.startError
             /\ storedTs = p.st.ts
             /\ storedStatus = p.st.status
             /\ tickers = p.n
             /\ startInFlight = 0
             /\ stopInFlight = 0
             /\ last = "Mount"
             /\ liveCheck = "none"
             /\ live = NoData
             /\ supersededCache = FALSE
             /\ stopAwaiting = 0
             /\ settled = "none"
    /\ NoUriCall
    /\ NoFetchLog
    /\ NoDialog

Init == InitRev("later")

InitEarlier == InitRev("earlier")

\* the user reloads the page: the component state, the query cache and the
\* pending continuations of start() and stop() are gone, localStorage stays
Reload ==
    /\ Mount(rev, Store)
    /\ UNCHANGED <<rev, env, now>>
    /\ UNCHANGED uriVars
    /\ UNCHANGED fetchVars
    /\ UNCHANGED dialogVars

----------------------------------------------------------------------------
(* The promises of start() and stop() *)

\* await refetch() throws when the fetch fails: never, refetch() is called
\* without throwOnError and resolves with the query result either way
RefetchThrows(fetchFails) == FALSE

\* mutant: start() and stop() without their catch block
CommandSettlesUncaught(awaitedThrows) ==
    IF awaitedThrows THEN "rejected" ELSE "fulfilled"

\* how the promise of start() or stop() is settled when the command
\* returns: every await is inside try { } catch { }, and the catch block
\* only logs and sets state
CommandSettles(awaitedThrows) == "fulfilled"

----------------------------------------------------------------------------
(* The status query *)

\* an unchanged query and history
QueryUnchanged == UNCHANGED <<data, fetchStatus, isFetchedAfterMount, liveCheck, live>>

\* the fetch in flight resolves with a snapshot the server made
FetchSucceeded ==
    /\ fetchStatus = "fetching"
    /\ \E s \in StatusValues, e \in EstValues :
         LET snap == Snapshot(s, now, e)
             d == ApplyFetched(data, snap)
         IN  /\ data' = d
             /\ live' = snap
             /\ Commit(AfterEvent(Component, d))
    /\ fetchStatus' = "idle"
    /\ isFetchedAfterMount' = TRUE
    /\ liveCheck' = "ok"
    /\ last' = "FetchSucceeded"
    /\ supersededCache' = (liveCheck # "ok" /\ data.status = "running")
    /\ UNCHANGED <<rev, env, now, startInFlight, stopInFlight>>
    /\ stopAwaiting' = 0
    /\ settled' = IF stopAwaiting > 0
                  THEN CommandSettles(RefetchThrows(FALSE))
                  ELSE "none"
    /\ UNCHANGED uriVars
    /\ UNCHANGED fetchVars
    /\ UNCHANGED dialogVars

\* the fetch in flight fails (its retries included): the data stays, the
\* error counts as an update of the query
FetchFailed ==
    /\ fetchStatus = "fetching"
    /\ fetchStatus' = "idle"
    /\ isFetchedAfterMount' = TRUE
    /\ liveCheck' = IF liveCheck = "ok" THEN "ok" ELSE "failed"
    /\ last' = "FetchFailed"
    /\ UNCHANGED <<rev, env, now, data, live, isStarting, isStopping,
                   isSuspendingLocal, progress, startTimestamp, startError,
                   storedTs, storedStatus, startInFlight, stopInFlight>>
    /\ supersededCache' = FALSE
    /\ stopAwaiting' = 0
    /\ settled' = IF stopAwaiting > 0
                  THEN CommandSettles(RefetchThrows(TRUE))
                  ELSE "none"
    /\ UNCHANGED uriVars
    /\ UNCHANGED fetchVars
    /\ UNCHANGED dialogVars
    /\ UNCHANGED tickers

\* the query's refetchInterval timer fires
PollTick ==
    /\ RefetchIntervalOn(data)
    /\ fetchStatus = "idle"
    /\ fetchStatus' = "fetching"
    /\ last' = "PollTick"
    /\ UNCHANGED <<rev, env, now, data, isFetchedAfterMount, liveCheck, live,
                   isStarting, isStopping, isSuspendingLocal, progress,
                   startTimestamp, startError, storedTs, storedStatus,
                   startInFlight, stopInFlight>>
    /\ supersededCache' = FALSE
    /\ settled' = "none"
    /\ UNCHANGED stopAwaiting
    /\ UNCHANGED uriVars
    /\ UNCHANGED fetchVars
    /\ UNCHANGED dialogVars
    /\ UNCHANGED tickers

----------------------------------------------------------------------------
(* DbVmGate: commands and timers *)

\* the gate's button is clicked: start() up to its await.  The button is
\* the only caller of start() in the sources; stop() has none there, so it
\* is called by a consumer of the context (InvokeStop below)
ClickStart ==
    /\ Rendered = "gate"
    /\ ~buttonDisabled
    /\ startInFlight < MaxInFlight
    /\ Commit(AfterEvent([Component EXCEPT !.startError = FALSE,
                                           !.isStarting = TRUE,
                                           !.progress = Fraction(0, 1),
                                           !.startTimestamp = now], data))
    /\ startInFlight' = startInFlight + 1
    /\ last' = "ClickStart"
    /\ QueryUnchanged
    /\ UNCHANGED <<rev, env, now, stopInFlight>>
    /\ supersededCache' = FALSE
    /\ settled' = "none"
    /\ UNCHANGED stopAwaiting
    /\ UNCHANGED uriVars
    /\ UNCHANGED fetchVars
    /\ UNCHANGED dialogVars

\* the start request succeeds: useStartDbVm's onSuccess invalidates the
\* status query, which refetches; start() returns
StartResolved ==
    /\ startInFlight > 0
    /\ startInFlight' = startInFlight - 1
    /\ fetchStatus' = "fetching"
    /\ last' = "StartResolved"
    /\ UNCHANGED <<rev, env, now, data, isFetchedAfterMount, liveCheck, live,
                   isStarting, isStopping, isSuspendingLocal, progress,
                   startTimestamp, startError, storedTs, storedStatus,
                   stopInFlight>>
    /\ supersededCache' = FALSE
    /\ settled' = CommandSettles(FALSE)
    /\ UNCHANGED stopAwaiting
    /\ UNCHANGED uriVars
    /\ UNCHANGED fetchVars
    /\ UNCHANGED dialogVars
    /\ UNCHANGED tickers

\* the start request is rejected: the catch block of start()
StartRejected ==
    /\ startInFlight > 0
    /\ startInFlight' = startInFlight - 1
    /\ Commit(AfterEvent([Component EXCEPT !.startError = TRUE,
                                           !.isStarting = FALSE], data))
    /\ last' = "StartRejected"
    /\ QueryUnchanged
    /\ UNCHANGED <<rev, env, now, stopInFlight>>
    /\ supersededCache' = FALSE
    /\ settled' = CommandSettles(TRUE)
    /\ UNCHANGED stopAwaiting
    /\ UNCHANGED uriVars
    /\ UNCHANGED fetchVars
    /\ UNCHANGED dialogVars

\* mutant: stop() without the optimistic suspending flag
InvokeStopNotOptimistic ==
    /\ Rendered = "children"
    /\ stopInFlight + stopAwaiting < MaxInFlight
    /\ Commit(AfterEvent([Component EXCEPT !.isStopping = TRUE], data))
    /\ stopInFlight' = stopInFlight + 1
    /\ last' = "InvokeStop"
    /\ QueryUnchanged
    /\ UNCHANGED <<rev, env, now, startInFlight>>
    /\ supersededCache' = FALSE
    /\ settled' = "none"
    /\ UNCHANGED stopAwaiting
    /\ UNCHANGED uriVars
    /\ UNCHANGED fetchVars
    /\ UNCHANGED dialogVars

\* a consumer of the context, rendered inside the wrapped application,
\* calls stop(): stop() up to its first await
InvokeStop ==
    /\ Rendered = "children"
    /\ stopInFlight + stopAwaiting < MaxInFlight
    /\ Commit(AfterEvent([Component EXCEPT !.isStopping = TRUE,
                                           !.isSuspendingLocal = TRUE], data))
    /\ stopInFlight' = stopInFlight + 1
    /\ last' = "InvokeStop"
    /\ QueryUnchanged
    /\ UNCHANGED <<rev, env, now, startInFlight>>
    /\ supersededCache' = FALSE
    /\ settled' = "none"
    /\ UNCHANGED stopAwaiting
    /\ UNCHANGED uriVars
    /\ UNCHANGED fetchVars
    /\ UNCHANGED dialogVars

\* the stop request succeeds: onSuccess invalidates the status query and
\* stop() awaits refetch(); it returns when that fetch has ended
StopResolved ==
    /\ stopInFlight > 0
    /\ stopInFlight' = stopInFlight - 1
    /\ fetchStatus' = "fetching"
    /\ last' = "StopResolved"
    /\ UNCHANGED <<rev, env, now, data, isFetchedAfterMount, liveCheck, live,
                   isStarting, isStopping, isSuspendingLocal, progress,
                   startTimestamp, startError, storedTs, storedStatus,
                   startInFlight>>
    /\ supersededCache' = FALSE
    /\ stopAwaiting' = stopAwaiting + 1
    /\ settled' = "none"
    /\ UNCHANGED uriVars
    /\ UNCHANGED fetchVars
    /\ UNCHANGED dialogVars
    /\ UNCHANGED tickers

\* mutant: a catch block of stop() that leaves the optimistic flag set
StopRejectedKeepsSuspending ==
    /\ stopInFlight > 0
    /\ stopInFlight' = stopInFlight - 1
    /\ Commit(AfterEvent([Component EXCEPT !.isStopping = FALSE], data))
    /\ last' = "StopRejected"
    /\ QueryUnchanged
    /\ UNCHANGED <<rev, env, now, startInFlight>>
    /\ supersededCache' = FALSE
    /\ settled' = CommandSettles(TRUE)
    /\ UNCHANGED stopAwaiting
    /\ UNCHANGED uriVars
    /\ UNCHANGED fetchVars
    /\ UNCHANGED dialogVars

\* the stop request is rejected: the catch block of stop()
StopRejected ==
    /\ stopInFlight > 0
    /\ stopInFlight' = stopInFlight - 1
    /\ Commit(AfterEvent([Component EXCEPT !.isStopping = FALSE,
                                           !.isSuspendingLocal = FALSE], data))
    /\ last' = "StopRejected"
    /\ QueryUnchanged
    /\ UNCHANGED <<rev, env, now, startInFlight>>
    /\ supersededCache' = FALSE
    /\ settled' = CommandSettles(TRUE)
    /\ UNCHANGED stopAwaiting
    /\ UNCHANGED uriVars
    /\ UNCHANGED fetchVars
    /\ UNCHANGED dialogVars

\* the 400 ms interval of the progress effect fires
ProgressTick ==
    /\ tickers > 0
    /\ Commit(AfterEvent([Component EXCEPT !.progress =
                 ProgressPct(now - startTimestamp, estimatedSeconds)], data))
    /\ last' = "ProgressTick"
    /\ QueryUnchanged
    /\ UNCHANGED <<rev, env, now, startInFlight, stopInFlight>>
    /\ supersededCache' = FALSE
    /\ settled' = "none"
    /\ UNCHANGED stopAwaiting
    /\ UNCHANGED uriVars
    /\ UNCHANGED fetchVars
    /\ UNCHANGED dialogVars

\* mutant: a suspending poll that runs only while the server reports
\* suspending
SuspendingPollTickOnServerSignal ==
    /\ rev = "later"
    /\ status = "suspending"
    /\ fetchStatus' = "fetching"
    /\ last' = "SuspendingPollTick"
    /\ UNCHANGED <<rev, env, now, data, isFetchedAfterMount, liveCheck, live,
                   isStarting, isStopping, isSuspendingLocal, progress,
                   startTimestamp, startError, storedTs, storedStatus,
                   startInFlight, stopInFlight>>
    /\ supersededCache' = FALSE
    /\ settled' = "none"
    /\ UNCHANGED stopAwaiting
    /\ UNCHANGED uriVars
    /\ UNCHANGED fetchVars
    /\ UNCHANGED dialogVars
    /\ UNCHANGED tickers

\* the 10 s interval of the later revision's suspending effect fires:
\* refetch() cancels a fetch in flight and starts a new one
SuspendingPollTick ==
    /\ rev = "later"
    /\ isSuspending \/ isSuspendingLocal
    /\ fetchStatus' = "fetching"
    /\ last' = "SuspendingPollTick"
    /\ UNCHANGED <<rev, env, now, data, isFetchedAfterMount, liveCheck, live,
                   isStarting, isStopping, isSuspendingLocal, progress,
                   startTimestamp, startError, storedTs, storedStatus,
                   startInFlight, stopInFlight>>
    /\ supersededCache' = FALSE
    /\ settled' = "none"
    /\ UNCHANGED stopAwaiting
    /\ UNCHANGED uriVars
    /\ UNCHANGED fetchVars
    /\ UNCHANGED dialogVars
    /\ UNCHANGED tickers

\* time passes
AdvanceClock ==
    /\ now + TickMs <= InitNow + MaxTicks * TickMs
    /\ now' = now + TickMs
    /\ last' = "AdvanceClock"
    /\ QueryUnchanged
    /\ UNCHANGED <<rev, env, isStarting, isStopping, isSuspendingLocal,
                   progress, startTimestamp, startError, storedTs,
                   storedStatus, startInFlight, stopInFlight>>
    /\ supersededCache' = FALSE
    /\ settled' = "none"
    /\ UNCHANGED stopAwaiting
    /\ UNCHANGED uriVars
    /\ UNCHANGED fetchVars
    /\ UNCHANGED dialogVars
    /\ UNCHANGED tickers

----------------------------------------------------------------------------
(* Specifications *)

Next ==
    \/ Reload
    \/ FetchSucceeded
    \/ FetchFailed
    \/ PollTick
    \/ ClickStart
    \/ StartResolved
    \/ StartRejected
    \/ InvokeStop
    \/ StopResolved
    \/ StopRejected
    \/ ProgressTick
    \/ SuspendingPollTick
    \/ AdvanceClock

\* the later revision of the gate (AddSourceDialog.tsx:728-1021)
Spec == Init /\ [][Next]_vars

NextEarlier ==
    \/ Reload
    \/ FetchSucceeded
    \/ FetchFailed
    \/ PollTick
    \/ ClickStart
    \/ StartResolved
    \/ StartRejected
    \/ InvokeStop
    \/ StopResolved
    \/ StopRejected
    \/ ProgressTick
    \/ AdvanceClock

\* the earlier revision of the gate (components/db/DbVmGate.tsx)
SpecEarlier == InitEarlier /\ [][NextEarlier]_vars

\* The progress estimator on its own: a local start is under way (start()
\* was called at startTimestamp, the request succeeded and the server
\* reports starting), the 400 ms interval fires as time passes.
\* estimatedStartSeconds of the snapshot's config, or left out
ProgressEstValues == {NoEst, 0, 60, DefaultEstimatedSeconds, 120}

\* milliseconds between the call of start() and the state the run begins in
ElapsedValues == {0, 400, 45000, 60000, 89100, 90000}

InitProgress ==
    /\ rev = "later"
    /\ env = [disable |-> FALSE, localhost |-> FALSE, force |-> FALSE]
    /\ now = InitNow
    /\ \E e \in ProgressEstValues, el \in ElapsedValues :
         /\ data = Snapshot("starting", InitNow, e)
         /\ startTimestamp = InitNow - el
    /\ fetchStatus = "idle"
    /\ isFetchedAfterMount = TRUE
    /\ isStarting = TRUE
    /\ isStopping = FALSE
    /\ isSuspendingLocal = FALSE
    /\ progress = Fraction(0, 1)
    /\ startError = FALSE
    /\ storedTs = NumberToString(startTimestamp)
    /\ storedStatus = JSONstringify(data)
    /\ startInFlight = 0
    /\ stopInFlight = 0
    /\ last = "FetchSucceeded"
    /\ liveCheck = "ok"
    /\ live = data
    /\ supersededCache = FALSE
    /\ stopAwaiting = 0
    /\ settled = "none"
    /\ tickers = 1
    /\ NoUriCall
    /\ NoFetchLog
    /\ NoDialog

NextProgress ==
    \/ ProgressTick
    \/ AdvanceClock

SpecProgress == InitProgress /\ [][NextProgress]_vars

----------------------------------------------------------------------------
(* lib/markdown.tsx: transformImageUri.                                    *)
(* A string is a sequence of tokens: a token is a word of letters and      *)
(* hyphens, or one of the characters : / # ? and the space.  The empty     *)
(* sequence is the empty string (and the argument left out).               *)

Words == {"data", "image", "ref-", "http", "javascript"}

Punct == {":", "/", "#", "?"}

Tokens == Words \cup Punct

\* the longest tail drawn after the chosen beginning of a URI
MaxTail == 3

\* 'data:image/'
DataImagePrefix == <<"data", ":", "image", "/">>

\* '#ref-'
RefPrefix == <<"#", "ref-">>

\* 'javascript:void(0)'
JavascriptVoid == <<"javascript", ":", "void(0)">>

\* s.startsWith(p)
startsWith(s, p) == Len(s) >= Len(p) /\ SubSeq(s, 1, Len(p)) = p

\* s.slice(n)
slice(s, n) == SubSeq(s, n + 1, Len(s))

\* s.indexOf(t), counted from 1; 0 when t does not occur
indexOf(s, t) ==
    IF \E i \in 1..Len(s) : s[i] = t
    THEN CHOOSE i \in 1..Len(s) : s[i] = t /\ \A j \in 1..(i - 1) : s[j] # t
    ELSE 0

\* s.trim()
RECURSIVE trim(_)
trim(s) ==
    IF s = <<>> THEN s
    ELSE IF Head(s) = " " THEN trim(Tail(s))
    ELSE IF s[Len(s)] = " " THEN trim(SubSeq(s, 1, Len(s) - 1))
    ELSE s

\* the length of the longest beginning of s made of tokens in set
RECURSIVE RunLength(_, _)
RunLength(s, set) ==
    IF s = <<>> \/ Head(s) \notin set THEN 0
    ELSE 1 + RunLength(Tail(s), set)

\* react-markdown's uriTransformer: the protocols it lets through
protocols == {"http", "https", "mailto", "tel"}

\* react-markdown/lib/uri-transformer.js
uriTransformer(u) ==
    LET url   == trim(u)
        colon == indexOf(url, ":")
        qmark == indexOf(url, "?")
        hash  == indexOf(url, "#")
    IN  IF url # <<>> /\ Head(url) \in {"#", "/"} THEN url
        ELSE IF colon = 0 THEN url
        ELSE IF \E p \in protocols : SubSeq(url, 1, colon - 1) = <<p>> THEN url
        ELSE IF qmark # 0 /\ colon > qmark THEN url
        ELSE IF hash # 0 /\ colon > hash THEN url
        ELSE JavascriptVoid

\* new URL(...) threw
InvalidURL == [ok |-> FALSE, href |-> <<>>]

\* the host and port at the beginning of r, up to the path, query or
\* fragment: words, and at most an empty port after them
HostOf(r) ==
    LET h == SubSeq(r, 1, RunLength(r, Tokens \ {"/", "?", "#"}))
        w == SubSeq(h, 1, RunLength(h, Words))
    IN  [len |-> Len(h), name |-> w, port |-> slice(h, Len(w))]

\* new URL('http:' + r): slashes are skipped, a host is required, an empty
\* path is written as /
SpecialURL(r) ==
    LET r1    == slice(r, RunLength(r, {"/"}))
        host  == HostOf(r1)
        after == slice(r1, host.len)
    IN  IF host.name = <<>> \/ host.port \notin {<<>>, <<":">>}
        THEN InvalidURL
        ELSE [ok |-> TRUE,
              href |-> <<"http", ":", "/", "/">> \o host.name \o
                       (IF after = <<>> \/ Head(after) \in {"?", "#"}
                        THEN <<"/">> \o after ELSE after)]

\* new URL(scheme + ':' + r) for a scheme that is not special: after //
\* comes a host, which may be empty; every other rest is kept as it is
OtherURL(scheme, r) ==
    IF startsWith(r, <<"/", "/">>)
    THEN LET r2    == slice(r, 2)
             host  == HostOf(r2)
             after == slice(r2, host.len)
         IN  IF \/ host.port = <<>>
                \/ (host.port = <<":">> /\ host.name # <<>>)
             THEN [ok |-> TRUE,
                   href |-> scheme \o <<":", "/", "/">> \o host.name \o after]
             ELSE InvalidURL
    ELSE [ok |-> TRUE, href |-> scheme \o <<":">> \o r]

\* new URL(u) without a base, and its toString()
NewURL(u) ==
    LET s == trim(u)
        n == RunLength(s, Words)
    IN  IF n = 0 \/ Len(s) = n \/ s[n + 1] # ":" THEN InvalidURL
        ELSE IF SubSeq(s, 1, n) = <<"http">> THEN SpecialURL(slice(s, n + 1))
        ELSE OtherURL(SubSeq(s, 1, n), slice(s, n + 1))

\* transformImageUri, the revision that falls back to new URL
transformImageUriURL(u) ==
    IF u = <<>> THEN <<>>
    ELSE IF startsWith(u, DataImagePrefix) THEN u
    ELSE IF NewURL(u).ok THEN NewURL(u).href
    ELSE <<>>

\* transformImageUri, the revision that falls back to uriTransformer
transformImageUriSanitizer(u) ==
    IF u = <<>> THEN <<>>
    ELSE IF startsWith(u, DataImagePrefix) THEN u
    ELSE uriTransformer(u)

transformImageUri(r, u) ==
    IF r = "uriTransformer" THEN transformImageUriSanitizer(u)
    ELSE transformImageUriURL(u)

\* the strings of at most n tokens
SeqsUpTo(n) == UNION {[1..k -> Tokens] : k \in 0..n}

\* the arguments: nothing, 'data:image/' or '#ref-', then a tail, with or
\* without a space before and after
UriValues ==
    {lead \o prefix \o tl \o trail :
        lead \in {<<>>, <<" ">>},
        prefix \in {<<>>, DataImagePrefix, RefPrefix},
        tl \in SeqsUpTo(MaxTail),
        trail \in {<<>>, <<" ">>}}

\* the gate is not mounted in the runs of transformImageUri
InitUri ==
    /\ mdRev \in {"URL", "uriTransformer"}
    /\ uri \in UriValues
    /\ transformed = <<>>
    /\ last = "none"
    /\ rev = "later"
    /\ env = [disable |-> FALSE, localhost |-> FALSE, force |-> FALSE]
    /\ now = InitNow
    /\ data = NoData
    /\ fetchStatus = "idle"
    /\ isFetchedAfterMount = FALSE
    /\ isStarting = FALSE
    /\ isStopping = FALSE
    /\ isSuspendingLocal = FALSE
    /\ progress = Fraction(0, 1)
    /\ startTimestamp = Null
    /\ startError = FALSE
    /\ storedTs = AbsentItem
    /\ storedStatus = AbsentEntry
    /\ startInFlight = 0
    /\ stopInFlight = 0
    /\ liveCheck = "none"
    /\ live = NoData
    /\ supersededCache = FALSE
    /\ stopAwaiting = 0
    /\ settled = "none"
    /\ tickers = 0
    /\ NoFetchLog
    /\ NoDialog

\* the markdown renderer calls transformImageUri(uri)
CallTransformImageUri ==
    /\ last = "none"
    /\ transformed' = transformImageUri(mdRev, uri)
    /\ last' = "transformImageUri"
    /\ UNCHANGED <<mdRev, uri, rev, env, now, data, fetchStatus,
                   isFetchedAfterMount, isStarting, isStopping,
                   isSuspendingLocal, progress, startTimestamp, startError,
                   storedTs, storedStatus, startInFlight, stopInFlight,
                   liveCheck, live, supersededCache, stopAwaiting, settled,
                   tickers>>
    /\ UNCHANGED fetchVars
    /\ UNCHANGED dialogVars

NextUri == CallTransformImageUri

SpecUri == InitUri /\ [][NextUri]_vars

----------------------------------------------------------------------------
(* The status query with the requests of replaced fetches followed: the    *)
(* query function takes no abort signal, so the request of a cancelled     *)
(* fetch still completes and its response reaches the query                *)

\* the times of the run
Times == {InitNow + k * TickMs : k \in 0..MaxTicks}

\* the snapshots a request issued at time i can bring back by now
Responses(i) ==
    {Snapshot(s, t, NoEst) :
         s \in StatusValues, t \in {u \in Times : i <= u /\ u <= now}}

\* the gate and the markdown variables a step of the query leaves alone
FetchFrame ==
    /\ UNCHANGED <<rev, env, now, startInFlight, stopInFlight, stopAwaiting>>
    /\ UNCHANGED dialogVars
    /\ supersededCache' = FALSE
    /\ settled' = "none"
    /\ UNCHANGED uriVars

\* the component state and the store unchanged
ComponentUnchanged ==
    UNCHANGED <<isStarting, isStopping, isSuspendingLocal, progress,
                startTimestamp, startError, storedTs, storedStatus, tickers>>

\* a page load with the gate enabled, over a store that holds no start
\* timestamp and no or a fresh last status; the mount's fetch is in flight
InitFetch ==
    /\ rev = "later"
    /\ env = [disable |-> FALSE, localhost |-> FALSE, force |-> FALSE]
    /\ now = InitNow
    /\ \E entry \in {AbsentEntry}
                      \cup {JSONstringify(Snapshot(s, InitNow, NoEst)) :
                                s \in StatusValues} :
         LET st == [ts |-> AbsentItem, status |-> entry]
             p == AfterMount("later", st, InitNow)
         IN  /\ data = getCachedStatus(entry, InitNow)
             /\ isStarting = p.c.isStarting
             /\ isStopping = p.c.isStopping
             /\ isSuspendingLocal = p.c.isSuspendingLocal
             /\ progress = p.c.progress
             /\ startTimestamp = p.c.startTimestamp
             /\ startError = p.c.startError
             /\ storedTs = p.st.ts
             /\ storedStatus = p.st.status
             /\ tickers = p.n
    /\ fetchStatus = "fetching"
    /\ fetchIssuedAt = InitNow
    /\ stale = {}
    /\ dropped = NoData
    /\ isFetchedAfterMount = FALSE
    /\ startInFlight = 0
    /\ stopInFlight = 0
    /\ last = "Mount"
    /\ liveCheck = "none"
    /\ live = NoData
    /\ supersededCache = FALSE
    /\ stopAwaiting = 0
    /\ settled = "none"
    /\ NoUriCall
    /\ NoDialog

\* the refetchInterval timer fires: a fetch is started unless one is in
\* flight, which the query then keeps
IntervalFetch ==
    /\ RefetchIntervalOn(data)
    /\ fetchStatus = "idle"
    /\ fetchStatus' = "fetching"
    /\ fetchIssuedAt' = now
    /\ last' = "IntervalFetch"
    /\ UNCHANGED <<data, isFetchedAfterMount, liveCheck, live, stale, dropped>>
    /\ ComponentUnchanged
    /\ FetchFrame

\* refetch() (stop(), the suspending poll, a consumer of the context) or
\* invalidateQueries (after start and stop), both with cancelRefetch: a
\* fetch in flight is cancelled and a new one started, except that a query
\* without data keeps its fetch in flight
Refetch ==
    /\ fetchStatus = "idle" \/ data # NoData
    /\ stale' = IF fetchStatus = "fetching"
                THEN stale \cup {fetchIssuedAt}
                ELSE stale
    /\ fetchStatus' = "fetching"
    /\ fetchIssuedAt' = now
    /\ last' = "Refetch"
    /\ UNCHANGED <<data, isFetchedAfterMount, liveCheck, live, dropped>>
    /\ ComponentUnchanged
    /\ FetchFrame

\* the response of the fetch in flight arrives and becomes the query data
Response ==
    /\ fetchStatus = "fetching"
    /\ \E snap \in Responses(fetchIssuedAt) :
         LET d == ApplyFetched(data, snap) IN
         /\ data' = d
         /\ live' = snap
         /\ Commit(AfterEvent(Component, d))
    /\ fetchStatus' = "idle"
    /\ fetchIssuedAt' = Null
    /\ isFetchedAfterMount' = TRUE
    /\ liveCheck' = "ok"
    /\ last' = "Response"
    /\ UNCHANGED <<stale, dropped>>
    /\ FetchFrame

\* the fetch in flight fails
ResponseFailed ==
    /\ fetchStatus = "fetching"
    /\ fetchStatus' = "idle"
    /\ fetchIssuedAt' = Null
    /\ isFetchedAfterMount' = TRUE
    /\ liveCheck' = IF liveCheck = "ok" THEN "ok" ELSE "failed"
    /\ last' = "ResponseFailed"
    /\ UNCHANGED <<data, live, stale, dropped>>
    /\ ComponentUnchanged
    /\ FetchFrame

\* mutant: the response of a cancelled fetch is written to the query
SupersededResponseApplied ==
    /\ \E i \in stale :
         /\ stale' = stale \ {i}
         /\ \E snap \in Responses(i) :
              /\ dropped' = snap
              /\ data' = snap
              /\ live' = snap
              /\ Commit(AfterEvent(Component, snap))
    /\ last' = "SupersededResponse"
    /\ UNCHANGED <<fetchStatus, fetchIssuedAt, isFetchedAfterMount, liveCheck>>
    /\ FetchFrame

\* the response of a cancelled fetch arrives: its promise was rejected at
\* the cancellation, so the query ignores the response
SupersededResponse ==
    /\ \E i \in stale :
         /\ stale' = stale \ {i}
         /\ \E snap \in Responses(i) : dropped' = snap
    /\ last' = "SupersededResponse"
    /\ UNCHANGED <<data, live, fetchStatus, fetchIssuedAt, isFetchedAfterMount,
                   liveCheck>>
    /\ ComponentUnchanged
    /\ FetchFrame

NextFetch ==
    \/ IntervalFetch
    \/ Refetch
    \/ Response
    \/ ResponseFailed
    \/ SupersededResponse
    \/ AdvanceClock

SpecFetch == InitFetch /\ [][NextFetch]_vars

----------------------------------------------------------------------------
(* Properties *)

LocalFlagsClear == ~isStarting /\ ~isStopping /\ ~isSuspendingLocal

\* C1: every mount starts a live status fetch, whatever snapshot was
\* cached, and with the gate enabled the blocking screen is rendered from
\* mount until a status fetch of this mount has resolved.
C1_ForcedRevalidation ==
    /\ last = "Mount" => fetchStatus = "fetching"
    /\ (~gateDisabled /\ liveCheck = "none") => Rendered = "gate"

\* a mount that accepted a cached running snapshot and still shows the gate
C1_Witness ==
    /\ last = "Mount"
    /\ ~gateDisabled
    /\ data.status = "running"
    /\ fetchStatus = "fetching"
    /\ Rendered = "gate"

\* C2: a failed status fetch does not release the gate: the wrapped
\* application is rendered only after a fetch of this mount has resolved
\* successfully with status running.
C2_FailedFetchKeepsGate ==
    (~gateDisabled /\ Rendered = "children")
        => (liveCheck = "ok" /\ live.status = "running")

\* C3: the persisted status entry read at mount is the initial data only if
\* its status is not running, or it is running and its age computed from
\* checkedAt is within the 60 s ceiling; otherwise there is no initial data.
C3_CachedEntryRule ==
    last = "Mount" =>
        data = IF /\ storedStatus.kind = "json"
                  /\ \/ storedStatus.snap.status # "running"
                     \/ /\ storedStatus.snap.checkedAt # NaN
                        /\ now - storedStatus.snap.checkedAt <= MAX_CACHE_AGE_MS
               THEN storedStatus.snap
               ELSE NoData

\* C4: once a status fetch of this mount has resolved successfully, the
\* query's data, and with it the exposed status, is that of the last live
\* snapshot, never the cached one.
C4_LiveSupersedes ==
    liveCheck = "ok" => (data = live /\ status = live.status)

\* a live snapshot that is not running replaced a cached running one
C4_Witness ==
    /\ supersededCache
    /\ last = "FetchSucceeded"
    /\ live.status # "running"
    /\ status = live.status

\* C5: with the gate enabled the wrapped application is rendered only if
\* the status is exactly running, no status check is pending or in flight
\* and no local starting or stopping flag is set.
C5_GateDecision ==
    (~gateDisabled /\ Rendered = "children") =>
        /\ data # NoData
        /\ data.status = "running"
        /\ fetchStatus = "idle"
        /\ liveCheck # "none"
        /\ ~isStarting
        /\ ~isStopping

\* the gate is enabled and has let the application through
C5_Witness ==
    /\ ~gateDisabled
    /\ Rendered = "children"
    /\ last = "FetchSucceeded"

\* C6: with the disable flag set and the force flag unset the wrapped
\* application is rendered in every state.
C6_Bypass == (env.disable /\ ~env.force) => Rendered = "children"

\* the bypass applies while the gate decision would block
C6_Witness ==
    /\ env.disable
    /\ ~env.force
    /\ ~env.localhost
    /\ shouldGate
    /\ status = "stopped"
    /\ Rendered = "children"

\* C7: with the force flag set the bypass never applies: what is rendered
\* is what the gate decision says.
C7_ForceOverride ==
    env.force => Rendered = (IF shouldGate THEN "gate" ELSE "children")

\* the force flag keeps the gate up on localhost
C7_Witness ==
    /\ env.force
    /\ env.localhost
    /\ Rendered = "gate"

\* C8 as claimed: whenever the status is running (and effects have
\* settled), the local flags are false and the persisted start timestamp is
\* absent.
C8_Original ==
    status = "running" => (LocalFlagsClear /\ storedTs = AbsentItem)

\* C8 as amended: when a snapshot changes the status to running, or a mount
\* begins with a running snapshot, the local flags are false and the
\* persisted start timestamp is absent once effects have settled; a mount
\* over a store without the timestamp does not restore the starting state.
C8_ClearedOnRunning ==
    /\ []((last = "Mount" /\ status = "running")
            => (LocalFlagsClear /\ storedTs = AbsentItem))
    /\ [][/\ (status' = "running" /\ (status # "running" \/ last' = "Mount"))
               => (LocalFlagsClear' /\ storedTs' = AbsentItem)
          /\ (last' = "Mount" /\ storedTs = AbsentItem) => ~isStarting']_vars

\* a start of this mount was cleared by a snapshot reporting running
C8_Witness ==
    /\ last = "FetchSucceeded"
    /\ status = "running"
    /\ startTimestamp # Null
    /\ LocalFlagsClear
    /\ storedTs = AbsentItem

\* C9 as claimed: in the later revision, after the start request is
\* rejected the local starting flag is false, the error message is set and
\* the start control is enabled, given no status check in flight and the
\* server not reporting starting or suspending.
C9_Original ==
    last = "StartRejected" =>
        /\ ~isStarting
        /\ startError
        /\ (~isValidating /\ status \notin {"starting", "suspending"})
               => ~buttonDisabled

\* C9 as amended: in the later revision, after the start request is
\* rejected the local starting flag is false and the error message is set,
\* and the start control is enabled given no status check in flight, the
\* server not reporting starting or suspending, and no stop in progress
\* (local stopping and suspending flags clear).
C9_StartFailureRecovery ==
    last = "StartRejected" =>
        /\ ~isStarting
        /\ startError
        /\ (/\ ~isValidating
            /\ status \notin {"starting", "suspending"}
            /\ ~isStopping
            /\ ~isSuspendingLocal) => ~buttonDisabled

\* the start request was rejected and the gate offers the start again
C9_Witness ==
    /\ last = "StartRejected"
    /\ ~isStarting
    /\ startError
    /\ storedTs # AbsentItem
    /\ Rendered = "gate"
    /\ ~buttonDisabled

\* C10: in the earlier revision, after the start request is rejected the
\* local starting flag is false, the error message is set and the start
\* control is enabled (the server not reporting starting or suspending and
\* no stop in progress).
C10_StartFailureRecovery ==
    last = "StartRejected" =>
        /\ ~isStarting
        /\ startError
        /\ (/\ status \notin {"starting", "suspending"}
            /\ ~isStopping
            /\ ~isSuspendingLocal) => ~buttonDisabled

----------------------------------------------------------------------------
(* Poll cadence *)

\* C11: while mounted, whenever the status is not running, the case of no
\* snapshot at all (status unknown) included, the status query is polled:
\* either a fetch is in flight or the interval timer will start one.
C11_PollsWhenNotRunning ==
    status # "running" => (isFetching \/ RefetchIntervalOn(data))

\* a timer of the controller starts a status fetch in this step
TimerFetch == last' \in {"PollTick", "SuspendingPollTick"}

\* C12: once the status is running, no timer starts a status fetch until
\* start or stop is invoked or the page is mounted anew.  The local
\* suspending flag is clear when the status becomes running, only an
\* invocation of stop sets it, and with status running and the flag clear
\* neither the query's interval nor the suspending poll is armed or fires.
C12_NoPollWhileRunning ==
    /\ [](status = "running" /\ ~isSuspendingLocal
            => ~RefetchIntervalOn(data) /\ ~isSuspending)
    /\ [][(status' = "running" /\ (status # "running" \/ last' = "Mount"))
            => ~isSuspendingLocal']_vars
    /\ [][(isSuspendingLocal' /\ ~isSuspendingLocal)
            => last' = "InvokeStop"]_vars
    /\ [][(status = "running" /\ ~isSuspendingLocal) => ~TimerFetch]_vars

\* the status has become running by a live fetch, nothing is in flight
C12_Witness ==
    /\ last = "FetchSucceeded"
    /\ status = "running"
    /\ ~isSuspendingLocal
    /\ fetchStatus = "idle"
    /\ startInFlight = 0
    /\ stopInFlight = 0

----------------------------------------------------------------------------
(* Progress *)

\* the fraction f is at most the whole number n
AtMost(f, n) == f[1] <= n * f[2]

\* C13: in every reachable state the progress value is at most 99 unless
\* the status is running (100 is written by the running effect alone and
\* stands only for a confirmed running status).
C13_ProgressCapped == status # "running" => AtMost(progress, ProgressCap)

\* C13 (amended): during a local start the progress value is at most 99
\* unless the status is running; the value 100 is written only in a step
\* in which the running effect observes status running (a live fetch or a
\* mount over a cached running snapshot), every progress tick writes at
\* most 99, and 100 is written whenever the status becomes running.  The
\* value 100 then stays until the next start resets it.
C13_HundredOnlyOnRunning ==
    /\ []((isStarting /\ status # "running") => AtMost(progress, ProgressCap))
    /\ [][(progress' = Fraction(ProgressDone, 1) /\ progress' # progress)
            => (status' = "running" /\ last' \in {"FetchSucceeded", "Mount"})]_vars
    /\ [][last' = "ProgressTick" => AtMost(progress', ProgressCap)]_vars
    /\ [][(status' = "running" /\ status # "running")
            => progress' = Fraction(ProgressDone, 1)]_vars

\* a start was under way and a live fetch reported running
C13_Witness ==
    /\ last = "FetchSucceeded"
    /\ status = "running"
    /\ startTimestamp # Null
    /\ storedTs = AbsentItem
    /\ progress = Fraction(ProgressDone, 1)

\* Date.now() - startTimestamp at the tick
elapsedMs == now - startTimestamp

\* the fraction f lies in 0..99
InRange(f) == f[2] > 0 /\ f[1] >= 0 /\ AtMost(f, ProgressCap)

\* the fraction f is min(99, el * 100 / (est * 1000)), for est > 0; the
\* quotient is el / (est * 10)
IsCappedQuotient(f, el, est) ==
    IF el >= ProgressCap * est * 10
    THEN f = <<ProgressCap, 1>>
    ELSE f[2] > 0 /\ f[1] * (est * 10) = el * f[2]

\* C14 as stated: after a tick the progress lies in 0..99 for every
\* elapsed time that is 0 or more.
C14_Original ==
    (last = "ProgressTick" /\ elapsedMs >= 0) => InRange(progress)

\* C14 (amended): estimatedSeconds is the snapshot's estimatedStartSeconds,
\* or 90 when it is left out; for estimatedSeconds > 0 a tick sets progress
\* to min(99, elapsedMs * 100 / (estimatedSeconds * 1000)), which is 50 for
\* 90 s and 45 s elapsed and lies in 0..99 for every elapsed >= 0.
C14_ProgressFormula ==
    /\ estimatedSeconds =
         IF data.est = NoEst THEN DefaultEstimatedSeconds ELSE data.est
    /\ (last = "ProgressTick" /\ estimatedSeconds > 0) =>
         /\ IsCappedQuotient(progress, elapsedMs, estimatedSeconds)
         /\ (estimatedSeconds = 90 /\ elapsedMs = 45000)
               => progress = <<50, 1>>
         /\ elapsedMs >= 0 => InRange(progress)

\* a tick 45 s after the start, with no estimate in the snapshot
C14_Witness ==
    /\ last = "ProgressTick"
    /\ data.est = NoEst
    /\ elapsedMs = 45000
    /\ progress = <<50, 1>>

\* a tick at which the extrapolation is cut off at 99
C14_WitnessCap ==
    /\ last = "ProgressTick"
    /\ elapsedMs * 100 > ProgressCap * estimatedSeconds * 1000
    /\ estimatedSeconds > 0
    /\ progress = <<ProgressCap, 1>>

----------------------------------------------------------------------------
(* Release of the gate *)

\* something is under way that ends in a status fetch without the user:
\* a fetch in flight, an armed poll timer, or a start or stop request whose
\* resolution invalidates the query
CheckPending ==
    \/ isFetching
    \/ RefetchIntervalOn(data)
    \/ (rev = "later" /\ (isSuspending \/ isSuspendingLocal))
    \/ startInFlight > 0
    \/ stopInFlight > 0

\* C15: with the gate enabled, if from some point on every status fetch
\* resolves with running, the wrapped application is eventually rendered,
\* whatever happened before.  The gate comes down only through a status
\* fetch, so this needs that while the gate is up a status fetch is always
\* pending or scheduled: a state with the gate up and none is a state the
\* run stays in for ever unless the user acts.
C15_GateUpHasCheckPending ==
    (~gateDisabled /\ Rendered = "gate") => CheckPending

----------------------------------------------------------------------------
(* The durable store at the end of a transition *)

\* this step completes a transition: a fetch moves the status to running
\* while a local start is on, or to suspended or stopped while a local
\* stop is on
StartCompletes ==
    isStarting /\ status # "running" /\ status' = "running"

StopCompletes ==
    /\ isStopping
    /\ status \notin {"suspended", "stopped"}
    /\ status' \in {"suspended", "stopped"}

\* C16 as stated: when a transition completes, both keys are absent from
\* the store.
C16_Original ==
    [][(StartCompletes \/ StopCompletes)
         => (storedTs' = AbsentItem /\ storedStatus' = AbsentEntry)]_vars

\* C16 (amended): when a start completes (status reaches running) the start
\* timestamp key is absent from the store.  The last-status key is never
\* removed: once a snapshot is held it stores that snapshot, also when a
\* start or a stop completes.
C16_StoreAfterTransition ==
    /\ [](data # NoData => storedStatus = JSONstringify(data))
    /\ [][StartCompletes => storedTs' = AbsentItem]_vars
    /\ [][(StartCompletes \/ StopCompletes)
            => storedStatus' = JSONstringify(data')]_vars

\* a stop has completed: the fetch after the stop request reports suspended
C16_Witness ==
    /\ last = "FetchSucceeded"
    /\ status = "suspended"
    /\ startTimestamp = Null
    /\ LocalFlagsClear
    /\ stopInFlight = 0
    /\ storedTs = AbsentItem
    /\ storedStatus = JSONstringify(data)
    /\ liveCheck = "ok"

----------------------------------------------------------------------------
(* Failures of start() and stop() *)

\* this step is the failure of the refetch that a stop() call awaits
RefetchAfterStopFails == last' = "FetchFailed" /\ stopAwaiting > 0

\* C17 as stated: the promises of start() and stop() never reject, and
\* every failure, that of the refetch after stop included, is caught by
\* the command and turned into local state: the command's in-progress
\* flags are cleared.
C17_Original ==
    /\ [](settled # "rejected")
    /\ [](last = "StartRejected" => ~isStarting)
    /\ [](last = "StopRejected" => (~isStopping /\ ~isSuspendingLocal))
    /\ [][RefetchAfterStopFails
            => (~isStopping' /\ ~isSuspendingLocal')]_vars

\* C17 (amended): the promises of start() and stop() never reject.  A
\* rejected start request is caught and leaves an error message and a clear
\* starting flag, a rejected stop request is caught and leaves clear
\* stopping and suspending flags.  A failed refetch after stop is not
\* thrown by refetch(): stop() returns normally and the component state is
\* the one before the failure.
C17_CommandsNeverReject ==
    /\ [](settled # "rejected")
    /\ [](last = "StartRejected"
            => (settled = "fulfilled" /\ startError /\ ~isStarting))
    /\ [](last = "StopRejected"
            => (settled = "fulfilled" /\ ~isStopping /\ ~isSuspendingLocal))
    /\ [][RefetchAfterStopFails
            => (settled' = "fulfilled" /\ Component' = Component)]_vars

\* the refetch awaited by stop() has failed and stop() has returned
C17_Witness ==
    /\ last = "FetchFailed"
    /\ settled = "fulfilled"
    /\ isStopping
    /\ isSuspendingLocal
    /\ ~gateDisabled

\* C18: when the stop request is rejected, the stopping flag and the
\* optimistic suspending flag are both false once stop() has returned, so
\* neither keeps the gate up or the controls disabled: suspending is then
\* what the server reports, and with status running, a finished live check
\* and no start under way the wrapped application is rendered again.
C18_StopFailureClearsFlags ==
    last = "StopRejected" =>
        /\ settled = "fulfilled"
        /\ ~isStopping
        /\ ~isSuspendingLocal
        /\ isSuspending <=> status = "suspending"
        /\ (status = "running" /\ ~isValidating /\ ~isStarting)
              => Rendered = "children"

\* stop() was invoked from the running application, with the gate enabled,
\* and its request was rejected
C18_Witness ==
    /\ last = "StopRejected"
    /\ ~gateDisabled
    /\ status = "running"
    /\ Rendered = "children"
    /\ stopInFlight = 0

\* the controller state holds an error string (startError is the only
\* error state of the component, drawn under the button)
ErrorVisible == startError

\* C19: a rejected stop request is surfaced as a visible error string in
\* the controller state, as a rejected start request is.
C19_StopFailureSurfaced ==
    last \in {"StartRejected", "StopRejected"} => ErrorVisible

----------------------------------------------------------------------------
(* transformImageUri *)

\* C20: transformImageUri returns its argument unchanged for every URI that
\* starts with 'data:image/' and for every in-page reference link that
\* starts with '#ref-'.
C20_AllowedUnchanged ==
    (/\ last = "transformImageUri"
     /\ startsWith(uri, DataImagePrefix) \/ startsWith(uri, RefPrefix))
        => transformed = uri

\* the URI has the scheme javascript
JavascriptScheme(u) == startsWith(u, <<"javascript", ":">>)

\* C21: transformImageUri returns the empty string for every URI with an
\* unsafe scheme such as 'javascript:', and for an absent or empty URI.
C21_UnsafeEmptied ==
    (last = "transformImageUri" /\ (uri = <<>> \/ JavascriptScheme(uri)))
        => transformed = <<>>

\* C22: invoking start sets the local starting flag, records the start
\* timestamp now, resets progress to 0, clears a previous error and issues
\* exactly one start request, and once the effects have settled
\* localStorage holds that timestamp under the start-timestamp key.
C22_StartActs ==
    [][last' = "ClickStart" =>
          /\ isStarting'
          /\ startTimestamp' = now
          /\ progress' = Fraction(0, 1)
          /\ ~startError'
          /\ startInFlight' = startInFlight + 1
          /\ storedTs' = NumberToString(now)]_vars

\* start was invoked some time after the page load and its effects settled
C22_Witness ==
    /\ last = "ClickStart"
    /\ isStarting /\ startTimestamp = now /\ now > InitNow
    /\ storedTs = NumberToString(now)
    /\ ~startError
    /\ startInFlight = 1

\* the start-timestamp key holds the decimal string of a number
HoldsNumber(item) == item.kind # "absent" /\ Number(item) # NaN

C23_WitnessAbsent ==
    /\ last = "Mount" /\ now > InitNow
    /\ ~HoldsNumber(storedTs) /\ ~isStarting


\* C24: right after stop is invoked, before the stop request resolves or a
\* status fetch reports a change, isSuspending and the local stopping flag
\* are true, the start control is disabled and, with the gate enabled, the
\* blocking screen is rendered; isSuspending is true exactly when the
\* optimistic local flag is set or the server reports suspending.
C24_StopIsOptimistic ==
    /\ last = "InvokeStop" =>
           /\ isSuspending
           /\ isStopping
           /\ buttonDisabled
           /\ ~gateDisabled => Rendered = "gate"
    /\ isSuspending <=> (isSuspendingLocal \/ status = "suspending")

\* stop() was invoked from the running application with the gate enabled
\* and its request is pending
C24_Witness ==
    /\ last = "InvokeStop"
    /\ ~gateDisabled
    /\ status = "running"
    /\ stopInFlight = 1
    /\ isSuspending /\ isStopping
    /\ Rendered = "gate"


\* C25: when the local stopping flag or the optimistic suspending flag is
\* set and a status fetch resolves with suspended or stopped, both flags
\* are false once the effects have settled, whatever the status was when
\* stop was invoked.
C25_FlagsClearedOnSuspended ==
    [][(/\ isStopping \/ isSuspendingLocal
        /\ last' = "FetchSucceeded"
        /\ status' \in {"suspended", "stopped"})
          => ~isStopping' /\ ~isSuspendingLocal']_vars


\* C26: when the server reports starting and this page holds no start
\* timestamp (none in its state and no numeric one stored), the starting
\* state is exposed, the start control is disabled, the blocking screen is
\* rendered when the gate is enabled and no progress bar is drawn; a step
\* that ends in such a server status neither sets a timestamp nor writes
\* the start-timestamp key.
C26_ServerStartIsNotLocal ==
    /\ [](status = "starting" /\ startTimestamp = Null =>
              /\ contextIsStarting
              /\ buttonDisabled
              /\ ~showProgress
              /\ ~gateDisabled => Rendered = "gate")
    /\ [][(/\ status' = "starting"
           /\ startTimestamp = Null
           /\ ~HoldsNumber(storedTs))
             => /\ startTimestamp' = Null
                /\ storedTs' = storedTs
                /\ ~isStarting']_vars

\* a status fetch reported starting to a page that never started the
\* server and holds no stored timestamp
C26_Witness ==
    /\ last = "FetchSucceeded"
    /\ status = "starting"
    /\ ~gateDisabled
    /\ startTimestamp = Null
    /\ storedTs = AbsentItem
    /\ Rendered = "gate"
    /\ ~isStarting


C27_WitnessChecking ==
    /\ Rendered = "gate"
    /\ buttonDisabled
    /\ data.status = "stopped"
    /\ fetchStatus = "fetching"
    /\ LocalFlagsClear


\* C28: an interval of the progress effect is live only while the local
\* starting flag is set and a start timestamp is known (a page load leaves
\* none of the previous mount), a tick updates progress only in such a
\* state, and at most one interval is live at any time.
C28_OneTickerWhileStarting ==
    /\ [](/\ tickers \in {0, 1}
          /\ tickers > 0 => isStarting /\ startTimestamp # Null)
    /\ [][last' = "ProgressTick" => isStarting /\ startTimestamp # Null]_vars

\* the interval made after start() was invoked has ticked
C28_Witness ==
    /\ last = "ProgressTick"
    /\ tickers = 1
    /\ isStarting /\ startTimestamp # Null
    /\ progress # Fraction(0, 1)

\* the interval was cleared when a fetch reported running
C28_WitnessCleared ==
    /\ last = "FetchSucceeded"
    /\ status = "running"
    /\ startTimestamp # Null
    /\ tickers = 0


C30_StatusIsSnapshot ==
    /\ [](/\ liveCheck = "ok" =>
                status = live.status /\ rawStatus = live.rawStatus
          /\ data = NoData => status = "unknown" /\ rawStatus = Undefined)
    /\ [][last' = "Mount" =>
            LET initial == getCachedStatus(storedStatus, now) IN
            /\ status' = StatusOf(initial)
            /\ rawStatus' = initial.rawStatus]_vars
    /\ [][last' \notin {"FetchSucceeded", "Mount"} =>
            status' = status /\ rawStatus' = rawStatus]_vars

\* start() was invoked and its request rejected while the server reported
\* stopped: the flags and the error changed, the status did not
C30_Witness ==
    /\ last = "StartRejected"
    /\ startError
    /\ liveCheck = "ok"
    /\ status = "stopped"
    /\ rawStatus = RawStatusOf("stopped")
    /\ live.status = "stopped"


----------------------------------------------------------------------------
(* rawStatus as a passthrough *)

\* the provider names the variants of a run carry
RawVariants == {RawStatusOf("running"), <<"provider", "REPAIRING">>}


\* a snapshot, and a last-status entry, with another rawStatus
WithRaw(d, r) == IF d = NoData THEN d ELSE [d EXCEPT !.rawStatus = r]

EntryWithRaw(e, r) ==
    IF e.kind = "json" THEN [e EXCEPT !.snap = WithRaw(e.snap, r)] ELSE e

\* what the gate decides in a render: whether the blocking screen is up,
\* whether the button is disabled, and which polls are armed
GateView(c, d, fs, fam) ==
    LET st == StatusOf(d)
        validating == (fs = "fetching" /\ d = NoData) \/ fs = "fetching" \/ ~fam
        suspending == st = "suspending" \/ c.isSuspendingLocal
    IN  [shouldGate |-> validating \/ st # "running" \/ c.isStarting
                           \/ c.isStopping \/ suspending,
         disabled |-> (validating /\ st = "running") \/ c.isStarting
                         \/ st = "starting" \/ c.isStopping \/ suspending
                         \/ validating,
         interval |-> RefetchIntervalOn(d),
         suspendingPoll |-> suspending \/ c.isSuspendingLocal]

\* the view of the state as it is
ThisView ==
    [shouldGate |-> shouldGateLater,
     disabled |-> buttonDisabled,
     interval |-> RefetchIntervalOn(data),
     suspendingPoll |-> isSuspending \/ isSuspendingLocal]

\* the component state an event of the gate sets before the effects run,
\* in a run whose query holds d
EventState(e, d) ==
    CASE e = "ClickStart" ->
           [Component EXCEPT !.startError = FALSE, !.isStarting = TRUE,
                             !.progress = Fraction(0, 1),
                             !.startTimestamp = now]
      [] e = "StartRejected" ->
           [Component EXCEPT !.startError = TRUE, !.isStarting = FALSE]
      [] e = "InvokeStop" ->
           [Component EXCEPT !.isStopping = TRUE, !.isSuspendingLocal = TRUE]
      [] e = "StopRejected" ->
           [Component EXCEPT !.isStopping = FALSE,
                             !.isSuspendingLocal = FALSE]
      [] e = "ProgressTick" ->
           [Component EXCEPT !.progress =
                ProgressPct(now - startTimestamp,
                            IF d = NoData \/ d.est = NoEst
                            THEN DefaultEstimatedSeconds ELSE d.est)]

\* the events of the gate that set component state
CommittingEvents ==
    {"ClickStart", "StartRejected", "InvokeStop", "StopRejected",
     "ProgressTick"}

\* the later revision of the gate on a deployment with the gate enabled
InitRaw ==
    /\ Init
    /\ env = [disable |-> FALSE, force |-> FALSE, localhost |-> FALSE]

SpecRaw == InitRaw /\ [][Next]_vars

\* the outcome p of a step in a variant run agrees with this run's
SameOutcome(p) ==
    /\ p.c = Component'
    /\ p.n = tickers'
    /\ p.st.ts = storedTs'
    /\ EntryWithRaw(p.st.status, Undefined)
           = EntryWithRaw(storedStatus', Undefined)

\* C31: rawStatus never drives logic.  A run that differs from this one
\* only in the rawStatus of its snapshots (the one the query holds, the one
\* stored, the one a fetch brings) decides the same in every state (gate,
\* start control, polls) and after every event has the same local flags,
\* progress, timers and stored start timestamp.
C31_RawStatusIsOpaque ==
    /\ [](\A r \in RawVariants :
            GateView(Component, WithRaw(data, r), fetchStatus,
                     isFetchedAfterMount) = ThisView)
    /\ [][LET r0 == <<"provider", "REPAIRING">>
                d0 == WithRaw(data, r0)
                st0 == [ts |-> storedTs,
                        status |-> EntryWithRaw(storedStatus, r0)]
            IN  CASE last' = "FetchSucceeded" ->
                       \A r2 \in RawVariants :
                         LET d2 == ApplyFetched(d0, WithRaw(live', r2)) IN
                         /\ SameOutcome(Settle(rev, FALSE, Component, d0,
                                               Component, d2, st0, now,
                                               tickers))
                         /\ WithRaw(d2, Undefined) = WithRaw(data', Undefined)
                  [] last' = "Mount" ->
                       LET initial == getCachedStatus(st0.status, now) IN
                       /\ SameOutcome(AfterMount(rev, st0, now))
                       /\ WithRaw(initial, Undefined)
                              = WithRaw(data', Undefined)
                       /\ FetchOnMount(initial) = (fetchStatus' = "fetching")
                  [] last' \in CommittingEvents ->
                       /\ SameOutcome(Settle(rev, FALSE, Component, d0,
                                             EventState(last', d0), d0, st0,
                                             now, tickers))
                       /\ data' = data
                  [] OTHER ->
                       /\ data' = data
                       /\ Component' = Component
                       /\ tickers' = tickers
                       /\ storedTs' = storedTs]_vars

\* a fetch brought a snapshot with a provider name, the gate is up on its
\* status and the start is offered
C31_Witness ==
    /\ last = "FetchSucceeded"
    /\ rawStatus = RawStatusOf("stopped")
    /\ status = "stopped"
    /\ Rendered = "gate"
    /\ ~buttonDisabled
    /\ RefetchIntervalOn(data)


----------------------------------------------------------------------------
(* Retry after a failed start *)

\* C32: after a rejected start request and a reload, when the live check
\* of the new mount resolves with stopped or suspended the controller is
\* not in the starting state and the start control is enabled.
C32_RetryAfterReload ==
    [][(last = "StartRejected" /\ last' = "Mount") =>
          \A s \in {"stopped", "suspended"} :
             LET d == ApplyFetched(data', Snapshot(s, now, NoEst))
                 p == Settle(rev, FALSE, Component', data', Component', d,
                             Store', now, tickers')
             IN  /\ ~p.c.isStarting
                 /\ ~GateView(p.c, d, "idle", TRUE).disabled]_vars


----------------------------------------------------------------------------
(* The suspending poll, with fair timers and a server that settles *)

\* a status fetch resolves with suspended or stopped
FetchReportsStopped ==
    FetchSucceeded /\ status' \in {"suspended", "stopped"}

\* the events of the gate within one reading of the clock
NextFair ==
    \/ Reload
    \/ FetchSucceeded
    \/ FetchFailed
    \/ PollTick
    \/ ClickStart
    \/ StartResolved
    \/ StartRejected
    \/ InvokeStop
    \/ StopResolved
    \/ StopRejected
    \/ ProgressTick
    \/ SuspendingPollTick

\* the gate enabled; an armed 10 s suspending poll fires eventually, and
\* of the status fetches that keep being made one eventually resolves with
\* suspended or stopped (the server gets there and answers)
SpecFair ==
    /\ InitRaw
    /\ [][NextFair]_vars
    /\ WF_vars(SuspendingPollTick)
    /\ SF_vars(FetchReportsStopped)

\* C33: after stop is invoked while the status is running, a refetch stays
\* armed for as long as the optimistic suspending flag is set although the
\* query's own interval is off while the snapshot says running, and when
\* the server comes to report suspended or stopped the stopping and the
\* optimistic suspending flags are eventually cleared.
C33_SuspendingPollClears ==
    /\ [][(last' = "InvokeStop" /\ status = "running") =>
             /\ ~RefetchIntervalOn(data')
             /\ isSuspendingLocal' /\ isStopping']_vars
    /\ (isStopping \/ isSuspendingLocal)
           ~> (~isStopping /\ ~isSuspendingLocal)

\* a fetch reported suspended after stop() was invoked from the running
\* application and cleared both flags
C33_Witness ==
    /\ last = "FetchSucceeded"
    /\ status = "suspended"
    /\ stopInFlight = 1
    /\ ~isStopping /\ ~isSuspendingLocal


----------------------------------------------------------------------------
(* The last-status entry *)

\* one deployment with the gate and one that bypasses it
GateOnAndOff ==
    {[disable |-> FALSE, force |-> FALSE, localhost |-> FALSE],
     [disable |-> TRUE, force |-> FALSE, localhost |-> FALSE]}

InitOnAndOff == Init /\ env \in GateOnAndOff

SpecOnAndOff == InitOnAndOff /\ [][Next]_vars

\* C34: whenever the query holds data, the last-status entry is the
\* serialization of that data; a failed fetch, a start and a stop leave
\* the entry as it is; and the component state, the timers and the stored
\* start timestamp after a fetch are the same when the entry could not be
\* written before (it is absent), so a failed write changes none of them.
C34_LastStatusStored ==
    /\ [](data # NoData => storedStatus = JSONstringify(data))
    /\ [][last' \in {"FetchFailed", "ClickStart", "StartResolved",
                     "StartRejected", "InvokeStop", "StopResolved",
                     "StopRejected"} => storedStatus' = storedStatus]_vars
    /\ [][last' = "FetchSucceeded" =>
            LET p == Settle(rev, FALSE, Component, data, Component, data',
                            [ts |-> storedTs, status |-> AbsentEntry], now,
                            tickers)
            IN  /\ p.c = Component'
                /\ p.n = tickers'
                /\ p.st.ts = storedTs']_vars

\* a fetch replaced the data and the entry with a newer snapshot of
\* another status
C34_Witness ==
    /\ last = "FetchSucceeded"
    /\ now > InitNow
    /\ data.checkedAt = now
    /\ storedStatus = JSONstringify(data)
    /\ status = "suspended"


----------------------------------------------------------------------------
(* The two revisions of the gate, side by side *)

InitBoth ==
    /\ \E r \in {"earlier", "later"} : InitRev(r)
    /\ env \in GateOnAndOff

\* each revision runs its own handlers
NextBoth ==
    \/ rev = "later" /\ Next
    \/ rev = "earlier" /\ NextEarlier

SpecBoth == InitBoth /\ [][NextBoth]_vars

\* C35: in every state either revision reaches, the rule of the earlier
\* revision showing the blocking screen implies the rule of the later one
\* showing it, and the later revision's button being enabled implies the
\* earlier revision's rule enabling it.
C35_LaterIsStricter ==
    /\ shouldGateEarlier => shouldGateLater
    /\ ~(startDisabledLater \/ isValidating) => ~startDisabledEarlier

\* the earlier revision blocks on a stopped application, idle
C35_Witness ==
    /\ rev = "earlier"
    /\ ~gateDisabled
    /\ shouldGateEarlier
    /\ status = "stopped"
    /\ ~isFetching

\* the later revision blocks where the earlier rule would not: a running
\* snapshot is being revalidated
C35_WitnessStricter ==
    /\ rev = "later"
    /\ shouldGateLater
    /\ ~shouldGateEarlier

\* the later revision enables the button
C35_WitnessEnabled ==
    /\ rev = "later"
    /\ ~gateDisabled
    /\ shouldGateLater
    /\ ~buttonDisabled


----------------------------------------------------------------------------
(* Progress over a start *)

\* q is a smaller number than p; no comparison with NaN is true
Decreases(p, q) ==
    /\ p # NotANumber
    /\ q # NotANumber
    /\ q[1] * p[2] < p[1] * q[2]

C36_WitnessTick ==
    /\ last = "ProgressTick"
    /\ Decreases(progress, Fraction(0, 1))
    /\ Decreases(Fraction(ProgressCap, 1), progress)


----------------------------------------------------------------------------
(* AddSourceDialog: Drive links, items and the submission *)

MaxUrls == 2
MaxFiles == 2
MaxDriveFiles == 2
MaxSessions == 2

timeoutMs == 120000
PollDelayMs == 1500

\* the time a status poll takes
PollLatencies == {58500}

\* URLs as new URL() sees them: whether it parses, the hostname, and the
\* pathname as a sequence of pieces
UrlSamples ==
    { [valid |-> TRUE, hostname |-> "drive.google.com",
       pathname |-> <<"/file/d/1">>],
      [valid |-> TRUE, hostname |-> "example.com",
       pathname |-> <<"/a/", "DOCS.GOOGLE.COM">>],
      [valid |-> TRUE, hostname |-> "example.com", pathname |-> <<"/a">>] }

ToLowerCase(piece) ==
    IF piece = "DOCS.GOOGLE.COM" THEN "docs.google.com" ELSE piece

\* DRIVE_REGEX.test(text), /(?:drive\.google\.com|docs\.google\.com)/i, on
\* a text given in pieces
DRIVE_REGEX(text) ==
    \E n \in 1..Len(text) :
        ToLowerCase(text[n]) \in {"drive.google.com", "docs.google.com"}

isDriveUrl(url) ==
    IF ~url.valid THEN FALSE
    ELSE DRIVE_REGEX(<<url.hostname>> \o url.pathname)

UrlLists ==
    UNION {[1..n -> UrlSamples] : n \in 0..MaxUrls}

\* the form data onSubmit is called with, with parsedUrls and parsedFiles
Forms ==
    {[type |-> "text", urls |-> <<>>, files |-> 0]}
        \cup {[type |-> "upload", urls |-> <<>>, files |-> n] :
                n \in 0..MaxFiles}
        \cup {[type |-> "link", urls |-> u, files |-> 0] : u \in UrlLists}

Item(kind, src, n) == [kind |-> kind, src |-> src, n |-> n]

\* the items of n files, or of the n files a Drive link resolved to
RECURSIVE ItemsOf(_, _, _)
ItemsOf(kind, src, n) ==
    IF n = 0 THEN <<>>
    ELSE Append(ItemsOf(kind, src, n - 1),
                Item(kind, IF kind = "file" THEN n ELSE src,
                     IF kind = "file" THEN 0 ELSE n))

\* mutant: the loop of buildItems stops at the first Drive URL and leaves
\* it out
RECURSIVE ScanUrlsSkipsDrive(_, _, _, _)
ScanUrlsSkipsDrive(urls, j, counts, items) ==
    IF j > Len(urls)
    THEN [j |-> j, counts |-> counts, items |-> items, drive |-> FALSE]
    ELSE IF isDriveUrl(urls[j])
    THEN ScanUrlsSkipsDrive(urls, j + 1, Append(counts, 0), items)
    ELSE ScanUrlsSkipsDrive(urls, j + 1, Append(counts, 0),
                            Append(items, Item("url", j, 0)))

\* buildItems, data.type === 'link': the loop from urls[j] on, up to the
\* next Drive URL, whose resolution it awaits
RECURSIVE ScanUrls(_, _, _, _)
ScanUrls(urls, j, counts, items) ==
    IF j > Len(urls)
    THEN [j |-> j, counts |-> counts, items |-> items, drive |-> FALSE]
    ELSE IF isDriveUrl(urls[j])
    THEN [j |-> j, counts |-> counts, items |-> items, drive |-> TRUE]
    ELSE ScanUrls(urls, j + 1, Append(counts, 0),
                  Append(items, Item("url", j, 0)))

\* createSource.isPending
isPending ==
    \E k \in DOMAIN subs : subs[k].pc \in {"creating", "creatingSingle"}

\* what a step of an invocation leaves: the dialog's state, the
\* invocation's locals, the pending timeouts and the toast shown
Outcome(d, s, t, toast) == [d |-> d, s |-> s, t |-> t, toast |-> toast]

\* handleClose
HandleCloseState(d) ==
    [d EXCEPT !.timeoutRef = "none", !.processing = FALSE,
              !.processingStatus = "none", !.batchProgress = NoBatch,
              !.open = FALSE]

HandleCloseTimeouts(d, t) == {x \in t : x.id # d.timeoutRef}

\* the catch of onSubmit: the message, and the timeout that resets the
\* processing view
Catch(d, s, t, k, message) ==
    Outcome([d EXCEPT !.processingStatus = message, !.timeoutRef = k],
            [SubIdle EXCEPT !.pc = "failed"],
            t \cup {[id |-> k, session |-> session]},
            "none")

\* setBatchProgress(prev => prev ? {...prev, currentItem} : null) and the
\* create request of items[i]
IssueBatchItem(d, s, t, i) ==
    Outcome([d EXCEPT !.batchProgress =
                 IF @ = NoBatch THEN NoBatch ELSE [@ EXCEPT !.currentItem = i]],
            [s EXCEPT !.pc = "creating", !.i = i, !.issued = Append(@, i)],
            t, "none")

\* onSubmit from the items on, up to the first create request; the URLs
\* are not looked at again
AfterBuildItems(d, s0, t, k) ==
    LET s == [s0 EXCEPT !.urls = <<>>, !.j = 0] IN
    IF Len(s.items) = 0 THEN Catch(d, s, t, k, "No items to import")
    ELSE IF Len(s.items) > 1
    THEN IssueBatchItem(
             [d EXCEPT !.processingStatus = "Processing sources...",
                       !.batchProgress =
                           [total |-> Len(s.items), completed |-> 0,
                            failed |-> 0, currentItem |-> 0]],
             s, t, 1)
    ELSE Outcome([d EXCEPT !.processingStatus =
                               "Submitting source for processing..."],
                 [s EXCEPT !.pc = "creatingSingle", !.i = 1,
                           !.issued = Append(@, 1)],
                 t, "none")

\* buildItems from urls[j] on, and what follows it
ContinueBuild(d, s, t, k) ==
    LET scan == ScanUrls(s.urls, s.j, s.counts, s.items)
        s1 == [s EXCEPT !.j = scan.j, !.counts = scan.counts,
                        !.items = scan.items]
    IN  IF scan.drive
        THEN Outcome([d EXCEPT !.processingStatus =
                                   "Resolving Google Drive link..."],
                     [s1 EXCEPT !.pc = "resolving"], t, "none")
        ELSE AfterBuildItems(d, s1, t, k)

\* the toast of the batch branch
BatchToast(success, failed) ==
    IF failed = 0 THEN "success"
    ELSE IF success = 0 THEN "error" ELSE "warning"

\* a step of onSubmit takes effect; the history keeps the URLs of a link
\* submission for the step that completes its items
Apply(k, o, name, urls) ==
    /\ dlg' = o.d
    /\ subs' = [subs EXCEPT ![k] = o.s]
    /\ timeouts' = o.t
    /\ devent' = [name |-> name, sub |-> k, toast |-> o.toast,
                  urls |-> IF o.s.pc \in {"creating", "creatingSingle"}
                           THEN urls ELSE <<>>]
    /\ UNCHANGED session


gateVars ==
    <<rev, env, now, data, fetchStatus, isFetchedAfterMount, isStarting,
      isStopping, isSuspendingLocal, progress, startTimestamp, startError,
      storedTs, storedStatus, startInFlight, stopInFlight, last, liveCheck,
      live, supersededCache, stopAwaiting, settled, tickers>>

\* the page holds the dialog, open; the other components are left aside
InitDialog ==
    /\ dlg = DialogInit
    /\ timeouts = {}
    /\ subs = [k \in SubIds |-> SubIdle]
    /\ devent = NoEvent
    /\ session = 1
    /\ rev = "later"
    /\ env = [disable |-> FALSE, localhost |-> FALSE, force |-> FALSE]
    /\ now = InitNow
    /\ data = NoData
    /\ fetchStatus = "idle"
    /\ isFetchedAfterMount = FALSE
    /\ isStarting = FALSE
    /\ isStopping = FALSE
    /\ isSuspendingLocal = FALSE
    /\ progress = Fraction(0, 1)
    /\ startTimestamp = Null
    /\ startError = FALSE
    /\ storedTs = AbsentItem
    /\ storedStatus = AbsentEntry
    /\ startInFlight = 0
    /\ stopInFlight = 0
    /\ last = "none"
    /\ liveCheck = "none"
    /\ live = NoData
    /\ supersededCache = FALSE
    /\ stopAwaiting = 0
    /\ settled = "none"
    /\ tickers = 0
    /\ NoUriCall
    /\ NoFetchLog

DialogFrame ==
    /\ UNCHANGED gateVars
    /\ UNCHANGED uriVars
    /\ UNCHANGED fetchVars

\* the form is submitted: onSubmit up to its first request. The submit
\* button is rendered with the form, and enabled while no create request
\* is pending
Submit(k) ==
    /\ dlg.mounted /\ dlg.open /\ ~dlg.processing
    /\ ~isPending
    /\ k \in DOMAIN subs
    /\ subs[k].pc = "idle"
    /\ k = "second" => subs["first"].pc # "idle"
    /\ \E form \in Forms :
         LET d == [dlg EXCEPT !.processing = TRUE,
                              !.processingStatus = "Preparing items..."]
             s == [SubIdle EXCEPT !.urls = form.urls, !.j = 1]
         IN  CASE form.type = "text" ->
                    Apply(k, AfterBuildItems(d,
                                 [s EXCEPT !.items = <<Item("text", 0, 0)>>],
                                 timeouts, k), "Submit", form.urls)
               [] form.type = "upload" ->
                    Apply(k, AfterBuildItems(d,
                                 [s EXCEPT !.items =
                                      ItemsOf("file", 0, form.files)],
                                 timeouts, k), "Submit", form.urls)
               [] form.type = "link" ->
                    Apply(k, ContinueBuild(d, s, timeouts, k), "Submit",
                          form.urls)
    /\ DialogFrame

\* driveApi.resolve settles: rejected (-1), or with n files
DriveResolved(k) ==
    /\ k \in DOMAIN subs
    /\ subs[k].pc = "resolving"
    /\ \E res \in -1..MaxDriveFiles :
         LET s == subs[k] IN
         IF res = -1
         THEN Apply(k, Catch(dlg, s, timeouts, k, "Drive resolve failed"),
                    "DriveRejected", <<>>)
         ELSE IF res = 0
         THEN Apply(k, Catch(dlg, s, timeouts, k,
                             "No files found in Drive link"),
                    "DriveEmpty", <<>>)
         ELSE Apply(k, ContinueBuild(dlg,
                           [s EXCEPT !.j = @ + 1,
                                     !.counts = Append(@, res),
                                     !.items = @ \o ItemsOf("drive", s.j, res)],
                           timeouts, k),
                    "DriveResolved", s.urls)
    /\ DialogFrame

\* submitBatch: the create request of items[i] settles; the next one is
\* issued, or the loop is over, the toast is shown and handleClose runs
BatchCreateSettled(k) ==
    /\ k \in DOMAIN subs
    /\ subs[k].pc = "creating"
    /\ \E ok \in BOOLEAN :
         LET s == subs[k]
             success == IF ok THEN s.success + 1 ELSE s.success
             failed == IF ok THEN s.failed ELSE s.failed + 1
             s1 == [s EXCEPT !.success = success, !.failed = failed]
             d1 == [dlg EXCEPT !.batchProgress =
                        IF @ = NoBatch THEN NoBatch
                        ELSE [@ EXCEPT !.completed = success,
                                       !.failed = failed]]
         IN  IF s.i < Len(s.items)
             THEN Apply(k, IssueBatchItem(d1, s1, timeouts, s.i + 1),
                        "CreateSettled", <<>>)
             ELSE Apply(k, Outcome(HandleCloseState(d1),
                                   [SubIdle EXCEPT !.pc = "returned", !.i = s.i,
                                                   !.success = success,
                                                   !.failed = failed],
                                   HandleCloseTimeouts(d1, timeouts),
                                   BatchToast(success, failed)),
                        "BatchReturned", <<>>)
    /\ DialogFrame

\* the single branch: the create request settles; with an id the polling
\* loop starts, its deadline is checked and the first poll is issued
SingleCreateSettled(k) ==
    /\ k \in DOMAIN subs
    /\ subs[k].pc = "creatingSingle"
    /\ \E res \in {"id", "no id", "rejected"} :
         LET s == subs[k] IN
         CASE res = "rejected" ->
                Apply(k, Catch(dlg, s, timeouts, k, "Request failed"),
                      "CreateRejected", <<>>)
           [] res = "no id" ->
                Apply(k, Catch(dlg, s, timeouts, k,
                               "Source id missing from response"),
                      "CreateWithoutId", <<>>)
           [] res = "id" ->
                Apply(k, Outcome([dlg EXCEPT !.processingStatus =
                                               "Processing source..."],
                                 [s EXCEPT !.pc = "polling", !.success = 1,
                                           !.elapsed = 0],
                                 timeouts, "none"),
                      "CreateSettled", <<>>)
    /\ DialogFrame

\* poll() settles
PollSettled(k) ==
    /\ k \in DOMAIN subs
    /\ subs[k].pc = "polling"
    /\ \E state \in {"completed", "failed", "processing", "rejected"},
          latency \in PollLatencies :
         LET s == [subs[k] EXCEPT !.elapsed = @ + latency] IN
         CASE state = "completed" ->
                Apply(k, Outcome(HandleCloseState(dlg),
                                 [SubIdle EXCEPT !.pc = "returned"],
                                 HandleCloseTimeouts(dlg, timeouts),
                                 "success"),
                      "PollCompleted", <<>>)
           [] state = "failed" ->
                Apply(k, Catch(dlg, s, timeouts, k, "Processing failed"),
                      "PollFailed", <<>>)
           [] state = "rejected" ->
                Apply(k, Catch(dlg, s, timeouts, k, "Request failed"),
                      "PollRejected", <<>>)
           [] state = "processing" ->
                Apply(k, Outcome(dlg, [s EXCEPT !.pc = "sleeping"],
                                 timeouts, "none"),
                      "PollPending", <<>>)
    /\ DialogFrame

\* the 1.5 s pause is over: the deadline is checked, the next poll issued
SleepDone(k) ==
    /\ k \in DOMAIN subs
    /\ subs[k].pc = "sleeping"
    /\ LET s == [subs[k] EXCEPT !.elapsed = @ + PollDelayMs] IN
       IF s.elapsed > timeoutMs
       THEN Apply(k, Catch(dlg, s, timeouts, k, "Processing timed out"),
                  "TimedOut", <<>>)
       ELSE Apply(k, Outcome(dlg, [s EXCEPT !.pc = "polling"], timeouts,
                             "none"),
                  "PollIssued", <<>>)
    /\ DialogFrame

\* the timeout of a catch fires
TimeoutFires ==
    /\ \E t \in timeouts :
         /\ timeouts' = timeouts \ {t}
         /\ devent' = [name |-> "TimeoutFires", sub |-> t.id,
                       toast |-> "none", urls |-> <<>>]
    /\ dlg' = IF dlg.mounted
              THEN [dlg EXCEPT !.processing = FALSE,
                               !.processingStatus = "none",
                               !.batchProgress = NoBatch]
              ELSE dlg
    /\ UNCHANGED <<subs, session>>
    /\ DialogFrame

\* the user closes the dialog: the close button, Escape, the overlay, or
\* Cancel
UserClose ==
    /\ dlg.mounted /\ dlg.open
    /\ dlg' = HandleCloseState(dlg)
    /\ timeouts' = HandleCloseTimeouts(dlg, timeouts)
    /\ devent' = [NoEvent EXCEPT !.name = "handleClose"]
    /\ UNCHANGED <<subs, session>>
    /\ DialogFrame

\* the parent opens the dialog again
Reopen ==
    /\ dlg.mounted /\ ~dlg.open
    /\ session < MaxSessions
    /\ dlg' = [dlg EXCEPT !.open = TRUE]
    /\ session' = session + 1
    /\ devent' = [NoEvent EXCEPT !.name = "Reopen"]
    /\ UNCHANGED <<subs, timeouts>>
    /\ DialogFrame

\* the component is unmounted: the cleanup effect clears the timeout of
\* timeoutRef. The state of the component is gone, and what its
\* invocations of onSubmit set from then on is dropped: they are followed
\* no further
Unmount ==
    /\ dlg.mounted
    /\ dlg' = [DialogInit EXCEPT !.mounted = FALSE, !.open = FALSE]
    /\ timeouts' = {x \in timeouts : x.id # dlg.timeoutRef}
    /\ subs' = [k \in DOMAIN subs |-> [SubIdle EXCEPT !.pc = "unmounted"]]
    /\ devent' = [NoEvent EXCEPT !.name = "Unmount"]
    /\ UNCHANGED session
    /\ DialogFrame

NextDialog ==
    \/ \E k \in SubIds : Submit(k)
    \/ \E k \in SubIds : DriveResolved(k)
    \/ \E k \in SubIds : BatchCreateSettled(k)
    \/ \E k \in SubIds : SingleCreateSettled(k)
    \/ \E k \in SubIds : PollSettled(k)
    \/ \E k \in SubIds : SleepDone(k)
    \/ TimeoutFires
    \/ UserClose
    \/ Reopen
    \/ Unmount

SpecDialog == InitDialog /\ [][NextDialog]_vars

\* the page in which the form is submitted once
InitDialogOnce ==
    /\ dlg = DialogInit
    /\ timeouts = {}
    /\ subs = [k \in {"first"} |-> SubIdle]
    /\ devent = NoEvent
    /\ session = 1
    /\ rev = "later"
    /\ env = [disable |-> FALSE, localhost |-> FALSE, force |-> FALSE]
    /\ now = InitNow
    /\ data = NoData
    /\ fetchStatus = "idle"
    /\ isFetchedAfterMount = FALSE
    /\ isStarting = FALSE
    /\ isStopping = FALSE
    /\ isSuspendingLocal = FALSE
    /\ progress = Fraction(0, 1)
    /\ startTimestamp = Null
    /\ startError = FALSE
    /\ storedTs = AbsentItem
    /\ storedStatus = AbsentEntry
    /\ startInFlight = 0
    /\ stopInFlight = 0
    /\ last = "none"
    /\ liveCheck = "none"
    /\ live = NoData
    /\ supersededCache = FALSE
    /\ stopAwaiting = 0
    /\ settled = "none"
    /\ tickers = 0
    /\ NoUriCall
    /\ NoFetchLog

SpecDialogOnce == InitDialogOnce /\ [][NextDialog]_vars


----------------------------------------------------------------------------
(* Properties of AddSourceDialog *)

\* the first n item numbers in order
UpTo(n) == [m \in 1..n |-> m]

\* the batch counters are on the screen
BatchDisplayed ==
    dlg.mounted /\ dlg.open /\ dlg.processing /\ dlg.batchProgress # NoBatch

\* C37: in submitBatch the create requests issued so far are those of the
\* items 1..i in order, all but the last settled; when one settles with
\* items left the next one is issued, whether it failed or not; the loop
\* returns with success + failed equal to the number of items; and the
\* completed and failed counters on the screen are at most the total.
C37_BatchSubmission ==
    /\ [](\A k \in DOMAIN subs :
            subs[k].pc = "creating" =>
                /\ subs[k].i \in 1..Len(subs[k].items)
                /\ subs[k].issued = UpTo(subs[k].i)
                /\ subs[k].success + subs[k].failed = subs[k].i - 1)
    /\ [][\A k \in DOMAIN subs :
            (subs[k].pc = "creating" /\ subs'[k] # subs[k]
                /\ devent'.name # "Unmount") =>
               IF subs[k].i < Len(subs[k].items)
               THEN /\ subs'[k].pc = "creating"
                    /\ subs'[k].issued = Append(subs[k].issued, subs[k].i + 1)
                    /\ subs'[k].success + subs'[k].failed = subs[k].i
               ELSE /\ subs'[k].pc = "returned"
                    /\ subs'[k].success + subs'[k].failed
                           = Len(subs[k].items)]_vars
    /\ [](BatchDisplayed =>
            /\ dlg.batchProgress.completed <= dlg.batchProgress.total
            /\ dlg.batchProgress.failed <= dlg.batchProgress.total)


\* one item per non-Drive URL and per file of a Drive URL, in the order
\* of the first j URLs
RECURSIVE ItemsInInputOrder(_, _, _)
ItemsInInputOrder(urls, counts, j) ==
    IF j = 0 THEN <<>>
    ELSE ItemsInInputOrder(urls, counts, j - 1)
             \o (IF isDriveUrl(urls[j]) THEN ItemsOf("drive", j, counts[j])
                 ELSE <<Item("url", j, 0)>>)

\* C38: while a Drive URL of a link submission is being resolved no
\* create request has been issued; when the first one is issued every
\* Drive URL has been resolved to at least one file and the items are one
\* per resolved file and one per other URL, in input order, and they stay
\* as they are; a resolution that is rejected or yields no files ends the
\* submission in its catch, with the error message and no create request
\* issued.
C38_DriveResolvedFirst ==
    /\ [](\A k \in DOMAIN subs :
            subs[k].pc = "resolving" => subs[k].issued = <<>>)
    /\ []((devent.name \in {"Submit", "DriveResolved"}
              /\ devent.urls # <<>>) =>
            LET s == subs[devent.sub] IN
            /\ s.issued = <<1>>
            /\ Len(s.counts) = Len(devent.urls)
            /\ \A j \in 1..Len(devent.urls) :
                   isDriveUrl(devent.urls[j]) => s.counts[j] >= 1
            /\ s.items = ItemsInInputOrder(devent.urls, s.counts,
                                           Len(devent.urls)))
    /\ [][\A k \in DOMAIN subs :
            (subs[k].issued # <<>> /\ subs'[k].issued # <<>>) =>
                subs'[k].items = subs[k].items]_vars
    /\ [][devent'.name \in {"DriveRejected", "DriveEmpty"} =>
            /\ subs[devent'.sub].issued = <<>>
            /\ subs'[devent'.sub].pc = "failed"
            /\ subs'[devent'.sub].issued = <<>>
            /\ dlg'.processingStatus \in
                   {"Drive resolve failed", "No files found in Drive link"}
            /\ \E t \in timeouts' : t.id = devent'.sub]_vars

\* a plain URL and a Drive link of two files became three items, and the
\* first create request is out
C38_Witness ==
    /\ devent.name = "DriveResolved"
    /\ Len(devent.urls) = 2
    /\ ~isDriveUrl(devent.urls[1])
    /\ isDriveUrl(devent.urls[2])
    /\ subs[devent.sub].pc = "creating"
    /\ subs[devent.sub].counts = <<0, 2>>
    /\ Len(subs[devent.sub].items) = 3

\* a Drive link resolved to no files: the submission failed
C38_WitnessEmpty ==
    /\ devent.name = "DriveEmpty"
    /\ subs[devent.sub].pc = "failed"


\* C39: in the single branch the success toast is shown, and the dialog
\* closed by onSubmit, only in the step in which a poll returned
\* completed; a poll that returned failed, a response without id and the
\* deadline end the invocation with the error message on the screen and
\* the timeout armed, which resets the processing view when it fires;
\* handleClose leaves no timeout pending, and a timeout fires only in the
\* session of the dialog in which it was armed.
C39_SingleSubmission ==
    /\ [][(devent'.toast = "success" /\ devent'.name # "BatchReturned") =>
            /\ devent'.name = "PollCompleted"
            /\ subs[devent'.sub].pc = "polling"
            /\ ~dlg'.open /\ ~dlg'.processing]_vars
    /\ [][(dlg.open /\ ~dlg'.open) =>
            devent'.name \in {"PollCompleted", "BatchReturned",
                              "handleClose", "Unmount"}]_vars
    /\ [][devent'.name \in {"PollFailed", "CreateWithoutId", "TimedOut"} =>
            /\ subs'[devent'.sub].pc = "failed"
            /\ dlg'.processingStatus \in
                   {"Processing failed", "Source id missing from response",
                    "Processing timed out"}
            /\ dlg'.timeoutRef = devent'.sub
            /\ \E t \in timeouts' : t.id = devent'.sub]_vars
    /\ [][devent'.name = "TimeoutFires" =>
            /\ ~dlg'.processing
            /\ dlg'.processingStatus = "none"
            /\ dlg'.batchProgress = NoBatch]_vars
    /\ [][devent'.name \in {"handleClose", "PollCompleted", "BatchReturned"}
            => timeouts' = {}]_vars
    /\ [][devent'.name = "TimeoutFires" =>
            \A t \in timeouts \ timeouts' : t.session = session]_vars

====
